---- MODULE Spec2Model ----
(***************************************************************************)
(* A model of the PLUS interpreter of src/PROJECT2: the fixed-width BigInt *)
(* (bigint.c), the table-driven lexer (lexer.c), the LR(1) constructor and *)
(* table builder (parser.c) with the grammar declared in main.c, and the   *)
(* shift-reduce driver (parser.c).                                         *)
(*                                                                         *)
(* Each component has its own specification (SpecBig, ...) over the same   *)
(* variables; a component that a specification does not exercise stays in  *)
(* its idle value.                                                         *)
(***************************************************************************)
EXTENDS Integers, Sequences, FiniteSets, TLC

VARIABLES
    mem,            \* bigint: the BigInt objects the caller owns, by address
    str,            \* bigint: the decimal string handed to big_int_from_string
    str_buffer,     \* bigint: the buffer big_int_to_string fills
    call,           \* bigint: the call that was made, with its operands' values
    ctx,            \* lexer: the LexContext
    tokens,         \* lexer: the tokens array of lexer(), tokens[0] first
    capacity,       \* lexer: the capacity of the tokens array
    num_tokens_out, \* lexer: *num_tokens_out, -1 until lexer() has returned
    pieces,         \* lexer: what each call consumed: skipped text, then lexeme
    stderr,         \* diagnostics written to stderr, oldest first
    grammar,        \* parser: the Grammar main() declares
    nullable_status,            \* parser: nullable_status[], by nonterminal id
    firstSetsForNonTerminals,   \* parser: FIRST sets, by nonterminal id
    canonical_collection,       \* parser: the item sets, state 0 first
    queue,          \* parser: create_lr1_sets' queue, as state ids
    queue_front,    \* parser: create_lr1_sets' queue_front
    action_table,   \* parser: ACTION rows, state 0 first
    goto_table,     \* parser: GOTO rows, state 0 first
    conflicts,      \* parser: the "Conflict detected" reports written to stderr
    parser,         \* parser: the Parser of parse()
    root_ast,       \* parser: what parse() returned to main()
    pc,             \* parser: where main() is, and the state build_parsing_tables is at
    followSetsForNonTerminals,  \* parser: FOLLOW sets, by nonterminal id
    pass_changed,   \* parser: changed, the flag of the fixed-point loop that runs
    heap,           \* parser: the ASTNode objects malloc gave, by address
    interp,         \* interpreter: global_runtime_sym_table, stdout and the calls in progress
    exit_status,    \* main: the exit status of the process, -1 while it runs
    released,       \* parser: the free() calls and reads of free_ast_node, oldest first
    freed_set       \* parser: what a read of an item set behind a dangling pointer gives

bigVars == <<mem, str, str_buffer, call>>

lexVars == <<ctx, tokens, capacity, num_tokens_out, pieces>>

lrVars == <<grammar, nullable_status, firstSetsForNonTerminals, canonical_collection,
            queue, queue_front, action_table, goto_table, conflicts, freed_set>>

lrBuilt == <<canonical_collection, queue, queue_front, action_table, goto_table, conflicts,
             freed_set>>

parseVars == <<parser, root_ast>>

setVars == <<followSetsForNonTerminals, pass_changed>>

runVars == <<heap, interp, exit_status, released>>

vars == <<mem, str, str_buffer, call, ctx, tokens, capacity, num_tokens_out, pieces, stderr,
          grammar, nullable_status, firstSetsForNonTerminals, canonical_collection,
          queue, queue_front, action_table, goto_table, conflicts, parser, root_ast, pc,
          followSetsForNonTerminals, pass_changed, heap, interp, exit_status, freed_set>>

(***************************************************************************)
(* Utilities                                                               *)
(***************************************************************************)
Range(s) == {s[i] : i \in DOMAIN s}

RECURSIVE Pow(_, _)
Pow(b, e) == IF e = 0 THEN 1 ELSE b * Pow(b, e - 1)

Reverse(s) == [i \in 1..Len(s) |-> s[Len(s) + 1 - i]]

SeqsUpTo(S, n) == UNION {[1..k -> S] : k \in 0..n}

\* F applied to the value of e, with e evaluated once, before F: the
\* sequencing of a C statement after the one that computed e.
Let(e, F(_)) == CHOOSE r \in {F(v) : v \in {e}} : TRUE

\* for (i = lo; i <= hi; ++i) acc = body(acc, i): the value of acc after the
\* loop.  The range is split in two halves that run one after the other.
RECURSIVE ForLoop(_, _, _, _)
ForLoop(body(_, _), acc, lo, hi) ==
    IF lo > hi THEN acc
    ELSE IF lo = hi THEN body(acc, lo)
    ELSE Let(ForLoop(body, acc, lo, (lo + hi) \div 2),
             LAMBDA a : ForLoop(body, a, (lo + hi) \div 2 + 1, hi))

(***************************************************************************)
(* bigint.h / bigint.c                                                     *)
(*                                                                         *)
(* A BigInt is NUM_LIMBS limbs, least significant first, and a sign that   *)
(* is 1 or -1.  The C limb is 64 bits wide; the model keeps the number of  *)
(* limbs and scales the limb to LimbBase values (LimbBase stands for 2^64) *)
(* so that every magnitude is a TLC integer.  The decimal buffer length    *)
(* MAX_BIGINT_STRING_LEN (102 in bigint.h, for a capacity of 116 digits)   *)
(* is scaled with it: MaxStringLen digits for a capacity of MaxStringLen+1 *)
(* digits.  limbs[i] of the code is limbs[i+1] here.                       *)
(***************************************************************************)
NUM_LIMBS == 6

LimbBase == 16

MaxStringLen == 7

Capacity == Pow(LimbBase, NUM_LIMBS)

\* long long has the width of a limb.
LLONG_MAX == (LimbBase \div 2) - 1

LLONG_MIN == -(LLONG_MAX + 1)

Digits == <<"0", "1", "2", "3", "4", "5", "6", "7", "8", "9">>

IsDigit(c) == \E d \in 1..10 : Digits[d] = c

DigitOf(c) == (CHOOSE d \in 1..10 : Digits[d] = c) - 1

\* The value of a string of digits.
RECURSIVE DecimalValue(_)
DecimalValue(digits) ==
    IF digits = <<>> THEN 0
    ELSE 10 * DecimalValue(SubSeq(digits, 1, Len(digits) - 1)) + DigitOf(digits[Len(digits)])

\* The objects of a call: the caller's a, b and r, and the callee's locals.
Callers == {"a", "b", "r"}

Locals == {"b_negated", "temp_result", "current_digit_bi"}

ZeroLimbs == [i \in 1..NUM_LIMBS |-> 0]

ZeroBigInt == [limbs |-> ZeroLimbs, sign |-> 1]

big_int_zero(m, num) == [m EXCEPT ![num] = ZeroBigInt]

RECURSIVE abs_compare_loop(_, _, _)
abs_compare_loop(x, y, i) ==
    IF i < 0 THEN 0
    ELSE IF x.limbs[i + 1] > y.limbs[i + 1] THEN 1
    ELSE IF x.limbs[i + 1] < y.limbs[i + 1] THEN -1
    ELSE abs_compare_loop(x, y, i - 1)

\* A variant whose loop stops above the least significant limb.
big_int_abs_compare_above_low(m, a, b) ==
    abs_compare_loop([m[a] EXCEPT !.limbs[1] = 0], [m[b] EXCEPT !.limbs[1] = 0],
                     NUM_LIMBS - 1)

big_int_abs_compare(m, a, b) == abs_compare_loop(m[a], m[b], NUM_LIMBS - 1)

\* One iteration reads a->limbs[i] and b->limbs[i] from memory as it is now,
\* then writes result->limbs[i]: result may be the same object as a or b.
RECURSIVE abs_add_loop(_, _, _, _, _, _)
abs_add_loop(m, result, a, b, i, carry) ==
    IF i >= NUM_LIMBS THEN m
    ELSE Let(m[a].limbs[i + 1] + m[b].limbs[i + 1] + carry, LAMBDA sum :
         Let([m EXCEPT ![result].limbs[i + 1] = sum % LimbBase], LAMBDA m1 :
         abs_add_loop(m1, result, a, b, i + 1, sum \div LimbBase)))

\* A variant that clears result before it adds: wrong when result is a or b.
big_int_abs_add_cleared(m, result, a, b) ==
    abs_add_loop(big_int_zero(m, result), result, a, b, 0, 0)

\* The carry out of the last limb is a local that is dropped at return.
big_int_abs_add(m, result, a, b) == abs_add_loop(m, result, a, b, 0, 0)

RECURSIVE abs_sub_loop(_, _, _, _, _, _)
abs_sub_loop(m, result, a, b, i, borrow) ==
    IF i >= NUM_LIMBS THEN m
    ELSE Let(m[a].limbs[i + 1] - m[b].limbs[i + 1] - borrow, LAMBDA diff :
         IF diff < 0
         THEN Let([m EXCEPT ![result].limbs[i + 1] = diff + LimbBase], LAMBDA m1 :
              abs_sub_loop(m1, result, a, b, i + 1, 1))
         ELSE Let([m EXCEPT ![result].limbs[i + 1] = diff], LAMBDA m1 :
              abs_sub_loop(m1, result, a, b, i + 1, 0)))

big_int_abs_sub(m, result, a, b) == abs_sub_loop(m, result, a, b, 0, 0)

is_zero(x) == \A i \in 1..NUM_LIMBS : x.limbs[i] = 0

\* A variant that leaves the sign as it finds it.
big_int_normalize_skipped(m, num) == m

big_int_normalize(m, num) ==
    IF is_zero(m[num]) THEN [m EXCEPT ![num].sign = 1] ELSE m

\* result->sign = x->sign after the magnitude is written, then normalize.
set_sign_normalize(m, result, x) ==
    Let([m EXCEPT ![result].sign = m[x].sign], LAMBDA m1 : big_int_normalize(m1, result))

big_int_add(m, result, a, b) ==
    IF m[a].sign = m[b].sign
    THEN Let(big_int_abs_add(m, result, a, b), LAMBDA m1 :
         set_sign_normalize(m1, result, a))
    ELSE Let(big_int_abs_compare(m, a, b), LAMBDA cmp :
         IF cmp >= 0
         THEN Let(big_int_abs_sub(m, result, a, b), LAMBDA m1 :
              set_sign_normalize(m1, result, a))
         ELSE Let(big_int_abs_sub(m, result, b, a), LAMBDA m1 :
              set_sign_normalize(m1, result, b)))

big_int_sub(m, result, a, b) ==
    Let([m EXCEPT !["b_negated"] = [m[b] EXCEPT !.sign = -m[b].sign]], LAMBDA m1 :
    big_int_add(m1, result, a, "b_negated"))

big_int_copy(m, dest, src) == [m EXCEPT ![dest] = m[src]]

\* -LLONG_MIN wraps to LLONG_MIN, and the cast to the unsigned limb gives
\* LLONG_MAX + 1: the magnitude of val in every case.
big_int_from_long_long(m, num, val) ==
    Let(big_int_zero(m, num), LAMBDA m1 :
    [m1 EXCEPT ![num].sign = IF val < 0 THEN -1 ELSE 1,
               ![num].limbs[1] = (IF val < 0 THEN -val ELSE val) % LimbBase])

\* temp_result = num * 10, limb by limb; the carry out of the last limb is dropped.
RECURSIVE mul10_loop(_, _, _, _)
mul10_loop(m, num, k, carry) ==
    IF k >= NUM_LIMBS THEN m
    ELSE Let(m[num].limbs[k + 1] * 10 + carry, LAMBDA product :
         Let([m EXCEPT !["temp_result"].limbs[k + 1] = product % LimbBase], LAMBDA m1 :
         mul10_loop(m1, num, k + 1, product \div LimbBase)))

\* The loop over str[i]; returned is TRUE when the loop left through the
\* early return of the invalid-character branch.
RECURSIVE from_string_loop(_, _, _, _)
from_string_loop(m, num, s, i) ==
    IF i >= Len(s) THEN [m |-> m, err |-> <<>>, returned |-> FALSE]
    ELSE IF ~IsDigit(s[i + 1])
    THEN [m |-> big_int_zero(m, num), err |-> <<"Invalid character">>, returned |-> TRUE]
    ELSE Let(mul10_loop(m, num, 0, 0), LAMBDA m1 :
         Let([m1 EXCEPT !["temp_result"].sign = 1], LAMBDA m2 :
         Let(big_int_from_long_long(m2, "current_digit_bi", DigitOf(s[i + 1])), LAMBDA m3 :
         Let(big_int_abs_add(m3, num, "temp_result", "current_digit_bi"), LAMBDA m4 :
         from_string_loop(m4, num, s, i + 1)))))

\* Returns the memory after the call and what the call wrote to stderr.
big_int_from_string(m, num, s) ==
    LET final_sign == IF Len(s) > 0 /\ s[1] = "-" THEN -1 ELSE 1
        start_idx == IF Len(s) > 0 /\ s[1] \in {"-", "+"} THEN 1 ELSE 0
    IN  Let(big_int_zero(m, num), LAMBDA m0 :
        Let(from_string_loop(m0, num, s, start_idx), LAMBDA r :
        IF r.returned THEN [m |-> r.m, err |-> r.err]
        ELSE Let([r.m EXCEPT ![num].sign = final_sign], LAMBDA m1 :
             [m |-> big_int_normalize(m1, num), err |-> <<>>])))

\* temp_num / 10 from the most significant limb down.
RECURSIVE div10_loop(_, _, _)
div10_loop(limbs, i, remainder) ==
    IF i < 0 THEN [limbs |-> limbs, remainder |-> remainder]
    ELSE Let(remainder * LimbBase + limbs[i + 1], LAMBDA current_val :
         Let([limbs EXCEPT ![i + 1] = current_val \div 10], LAMBDA limbs1 :
         div10_loop(limbs1, i - 1, current_val % 10)))

\* The do-while that fills buffer with the digits, least significant first.
RECURSIVE to_string_loop(_, _)
to_string_loop(temp_num, buffer) ==
    IF Len(buffer) >= MaxStringLen THEN buffer
    ELSE Let(div10_loop(temp_num.limbs, NUM_LIMBS - 1, 0), LAMBDA d :
         Let([temp_num EXCEPT !.limbs = d.limbs], LAMBDA t :
         Let(Append(buffer, Digits[d.remainder + 1]), LAMBDA buffer1 :
         IF is_zero(t) THEN buffer1 ELSE to_string_loop(t, buffer1))))

\* buffer before the terminator is written: the digits, then '-' if negative.
to_string_buffer(x) ==
    Let(to_string_loop([x EXCEPT !.sign = 1], <<>>), LAMBDA buffer :
    IF x.sign = -1 THEN Append(buffer, "-") ELSE buffer)

big_int_to_string(m, num) ==
    IF is_zero(m[num]) THEN <<"0">> ELSE Reverse(to_string_buffer(m[num]))

\* buffer has MAX_BIGINT_STRING_LEN + 1 bytes: with all the digits and a '-'
\* the terminator is written one byte past its end.
to_string_overruns(m, num) ==
    ~is_zero(m[num]) /\ Len(to_string_buffer(m[num])) > MaxStringLen

\* (long long)u: the integer of the long long range that is u modulo the
\* width of a limb.
ToLongLong(u) ==
    Let(u % LimbBase, LAMBDA w : IF w > LLONG_MAX THEN w - LimbBase ELSE w)

\* The two branches on num->sign, taken once no limb above limbs[0] is set.
\* Negating the long long that holds LLONG_MAX + 1 wraps.
to_long_long_low(x, out_val) ==
    IF x.sign = 1
    THEN IF x.limbs[1] > LLONG_MAX
         THEN [ok |-> FALSE, out_val |-> out_val,
               err |-> <<"Warning: Positive BigInt value overflows long long max.">>]
         ELSE [ok |-> TRUE, out_val |-> ToLongLong(x.limbs[1]), err |-> <<>>]
    ELSE Let(x.limbs[1], LAMBDA abs_val :
         IF abs_val > LLONG_MAX + 1
         THEN [ok |-> FALSE, out_val |-> out_val,
               err |-> <<"Warning: Negative BigInt value underflows long long min.">>]
         ELSE [ok |-> TRUE, out_val |-> ToLongLong(-ToLongLong(abs_val)), err |-> <<>>])

\* A variant without the loop over the limbs above limbs[0].
big_int_to_long_long_low_only(m, num, out_val) == to_long_long_low(m[num], out_val)

\* Returns what the call returns, *out_val after it and what it wrote to stderr.
big_int_to_long_long(m, num, out_val) ==
    IF \E i \in 1..(NUM_LIMBS - 1) : m[num].limbs[i + 1] # 0
    THEN [ok |-> FALSE, out_val |-> out_val,
          err |-> <<"Warning: BigInt value too large to fit in long long.">>]
    ELSE to_long_long_low(m[num], out_val)

\* The locals of a call are gone when it returns.
Return(m) == [x \in DOMAIN m |-> IF x \in Locals THEN ZeroBigInt ELSE m[x]]

(***************************************************************************)
(* lexer.h / lexer.c                                                       *)
(*                                                                         *)
(* A character is a string of length 1; EOF is the int that next_char      *)
(* returns at the end of the file.  The sizes of the read buffer (4096),   *)
(* of the lexeme buffer (MAX_LEXEME_LENGTH, 256) and of the symbol table   *)
(* (SYMBOL_TABLE_SIZE, 1024) are scaled to BufferSize, MaxLexemeLength and *)
(* SymbolTableSize.  long long is scaled with the limb: LLONG_MAX is half  *)
(* of LimbBase, less one.                                                  *)
(***************************************************************************)
EOF == "EOF"

BufferSize == 2

MaxLexemeLength == 8

SymbolTableSize == 8

Alpha ==
    {"a", "b", "c", "d", "e", "i", "l", "m", "n", "p", "r", "s", "t", "u", "w", "x", "y", "z",
     "_"}

Whitespace == {" ", "\t", "\n"}

CharClasses ==
    {"CHAR_ALPHA", "CHAR_DIGIT", "CHAR_PLUS", "CHAR_EQUALS", "CHAR_COLON", "CHAR_DASH",
     "CHAR_QUOTE", "CHAR_STAR", "CHAR_WHITESPACE", "CHAR_EOL_SEMICOLON", "CHAR_OPENB",
     "CHAR_CLOSEB", "CHAR_LPAREN", "CHAR_RPAREN", "CHAR_OTHER", "CHAR_EOF"}

States ==
    {"STATE_START", "STATE_IDENTIFIER", "STATE_INTEGER", "STATE_PLUS", "STATE_COLON",
     "STATE_DASH", "STATE_STRING", "STATE_COMMENT", "STATE_FINAL", "STATE_ERROR",
     "STATE_EOL", "STATE_EOF"}

get_char_class(c) ==
    IF c = EOF THEN "CHAR_EOF"
    ELSE IF c \in Alpha THEN "CHAR_ALPHA"
    ELSE IF IsDigit(c) THEN "CHAR_DIGIT"
    ELSE IF c = "\"" THEN "CHAR_QUOTE"
    ELSE IF c = "*" THEN "CHAR_STAR"
    ELSE IF c \in Whitespace THEN "CHAR_WHITESPACE"
    ELSE IF c = ":" THEN "CHAR_COLON"
    ELSE IF c = "+" THEN "CHAR_PLUS"
    ELSE IF c = "=" THEN "CHAR_EQUALS"
    ELSE IF c = "-" THEN "CHAR_DASH"
    ELSE IF c = ";" THEN "CHAR_EOL_SEMICOLON"
    ELSE IF c = "{" THEN "CHAR_OPENB"
    ELSE IF c = "}" THEN "CHAR_CLOSEB"
    ELSE IF c = "(" THEN "CHAR_LPAREN"
    ELSE IF c = ")" THEN "CHAR_RPAREN"
    ELSE "CHAR_OTHER"

\* setup_transition_table before its last loop: every entry STATE_ERROR, then
\* the entries the function assigns.
assigned_transitions ==
    [[s \in States |-> [c \in CharClasses |-> "STATE_ERROR"]] EXCEPT
        !["STATE_START"] = [@ EXCEPT
            !["CHAR_ALPHA"] = "STATE_IDENTIFIER",
            !["CHAR_DIGIT"] = "STATE_INTEGER",
            !["CHAR_PLUS"] = "STATE_PLUS",
            !["CHAR_COLON"] = "STATE_COLON",
            !["CHAR_DASH"] = "STATE_DASH",
            !["CHAR_QUOTE"] = "STATE_STRING",
            !["CHAR_STAR"] = "STATE_COMMENT",
            !["CHAR_OPENB"] = "STATE_FINAL",
            !["CHAR_CLOSEB"] = "STATE_FINAL",
            !["CHAR_LPAREN"] = "STATE_FINAL",
            !["CHAR_RPAREN"] = "STATE_FINAL",
            !["CHAR_WHITESPACE"] = "STATE_START",
            !["CHAR_EOL_SEMICOLON"] = "STATE_EOL",
            !["CHAR_EOF"] = "STATE_EOF"],
        !["STATE_IDENTIFIER"] = [@ EXCEPT
            !["CHAR_ALPHA"] = "STATE_IDENTIFIER",
            !["CHAR_DIGIT"] = "STATE_IDENTIFIER"],
        !["STATE_INTEGER"] = [@ EXCEPT !["CHAR_DIGIT"] = "STATE_INTEGER"],
        !["STATE_PLUS"] = [@ EXCEPT !["CHAR_EQUALS"] = "STATE_FINAL"],
        !["STATE_COLON"] = [@ EXCEPT !["CHAR_EQUALS"] = "STATE_FINAL"],
        !["STATE_DASH"] = [@ EXCEPT
            !["CHAR_EQUALS"] = "STATE_FINAL",
            !["CHAR_DIGIT"] = "STATE_INTEGER"],
        !["STATE_STRING"] = [c \in CharClasses |->
            IF c = "CHAR_QUOTE" THEN "STATE_FINAL"
            ELSE IF c = "CHAR_EOF" THEN "STATE_ERROR" ELSE "STATE_STRING"],
        !["STATE_COMMENT"] = [c \in CharClasses |->
            IF c = "CHAR_EOF" THEN "STATE_ERROR" ELSE "STATE_COMMENT"]]

\* The last loop: on CHAR_EOF an entry that is STATE_ERROR or STATE_START
\* becomes STATE_EOF.
transition_table ==
    [s \in States |-> [c \in CharClasses |->
        IF c = "CHAR_EOF" /\ assigned_transitions[s][c] \in {"STATE_ERROR", "STATE_START"}
        THEN "STATE_EOF" ELSE assigned_transitions[s][c]]]

\* fread into ctx->buffer: the next BufferSize bytes of the file, fewer at its end.
fread(c) ==
    LET n == IF Len(c.input) - c.file_pos < BufferSize
             THEN Len(c.input) - c.file_pos ELSE BufferSize
    IN  [c EXCEPT !.buffer = IF n = 0 THEN @ ELSE SubSeq(c.input, c.file_pos + 1, c.file_pos + n),
                  !.buffer_size = n,
                  !.file_pos = @ + n]

\* Returns the context after the call and the character read.
next_char(c) ==
    Let(IF c.buffer_pos >= c.buffer_size THEN [fread(c) EXCEPT !.buffer_pos = 0] ELSE c,
        LAMBDA c1 :
        IF c1.buffer_size = 0 THEN [ctx |-> c1, c |-> EOF]
        ELSE [ctx |-> [c1 EXCEPT
                        !.buffer_pos = @ + 1,
                        !.location = IF c1.buffer[c1.buffer_pos + 1] = "\n"
                                     THEN [line |-> @.line + 1, column |-> 0]
                                     ELSE [line |-> @.line, column |-> @.column + 1]],
              c |-> c1.buffer[c1.buffer_pos + 1]])

report_error(c, message) == [c EXCEPT !.err = Append(@, message)]

\* A variant that takes the column back to the start of the line.
unget_char_to_line_start(c) ==
    IF c.buffer_pos > 0
    THEN [c EXCEPT
            !.buffer_pos = @ - 1,
            !.location = IF c.buffer[c.buffer_pos] = "\n"
                         THEN [line |-> @.line - 1, column |-> 0]
                         ELSE [line |-> @.line, column |-> 0]]
    ELSE [c EXCEPT !.err = Append(@, "Lexer error: Attempted to unget character past buffer start.")]

\* buffer_pos goes back by one; ctx->current_char is not touched.
unget_char(c) ==
    IF c.buffer_pos > 0
    THEN [c EXCEPT
            !.buffer_pos = @ - 1,
            !.location = IF c.buffer[c.buffer_pos] = "\n"
                         THEN [line |-> @.line - 1, column |-> 0]
                         ELSE [line |-> @.line, column |-> @.column - 1]]
    ELSE [c EXCEPT !.err = Append(@, "Lexer error: Attempted to unget character past buffer start.")]

lookup_symbol(c, name) ==
    IF \E i \in 1..Len(c.symbol_table) : c.symbol_table[i].name = name
    THEN (CHOOSE i \in 1..Len(c.symbol_table) :
            /\ c.symbol_table[i].name = name
            /\ \A j \in 1..(i - 1) : c.symbol_table[j].name # name) - 1
    ELSE -1

\* Returns the context after the call and the index returned.
add_to_symbol_table(c, name, type, is_keyword) ==
    Let(lookup_symbol(c, name), LAMBDA index :
    IF index # -1 THEN [ctx |-> c, index |-> index]
    ELSE IF Len(c.symbol_table) < SymbolTableSize
    THEN [ctx |-> [c EXCEPT !.symbol_table =
                      Append(@, [name |-> name, type |-> type, is_keyword |-> is_keyword])],
          index |-> Len(c.symbol_table)]
    ELSE [ctx |-> report_error(c, "Symbol table overflow"), index |-> -1])

Keywords ==
    << <<"w", "r", "i", "t", "e">>, <<"a", "n", "d">>, <<"r", "e", "p", "e", "a", "t">>,
       <<"n", "e", "w", "l", "i", "n", "e">>, <<"t", "i", "m", "e", "s">>,
       <<"n", "u", "m", "b", "e", "r">> >>

KeywordTypes ==
    <<"TOKEN_WRITE", "TOKEN_AND", "TOKEN_REPEAT", "TOKEN_NEWLINE", "TOKEN_TIMES", "TOKEN_NUMBER">>

RECURSIVE add_keywords(_, _)
add_keywords(c, k) ==
    IF k > Len(Keywords) THEN c
    ELSE Let(add_to_symbol_table(c, Keywords[k], KeywordTypes[k], TRUE), LAMBDA r :
         add_keywords(r.ctx, k + 1))

\* The context after init_lexer on a file that holds input.  skipped is not
\* a field of LexContext: it records the characters the current call of
\* get_next_token skipped as whitespace or comment.
init_lexer(input) ==
    Let(add_keywords([input |-> input, file_pos |-> 0, buffer |-> <<>>, buffer_pos |-> 0,
                      buffer_size |-> 0, current_char |-> EOF,
                      location |-> [line |-> 1, column |-> 0],
                      lexeme_buffer |-> <<>>, symbol_table |-> <<>>,
                      err |-> <<>>, skipped |-> <<>>], 1), LAMBDA c0 :
    Let(next_char(c0), LAMBDA r : [r.ctx EXCEPT !.current_char = r.c]))

\* A Token; value.int_value and value.symbol_index are set for the one kind
\* of token that carries them.
Token(type, lexeme, location) ==
    [type |-> type, lexeme |-> lexeme, location |-> location,
     int_value |-> 0, symbol_index |-> 0]

\* The values atoll can return for a string of digits: the value when it fits
\* long long; beyond that the behaviour is undefined, and the C libraries in
\* use return LLONG_MAX or the value reduced to the width of long long.
atoll(digits) ==
    IF DecimalValue(digits) <= LLONG_MAX THEN {DecimalValue(digits)}
    ELSE {LLONG_MAX,
          ((DecimalValue(digits) + LLONG_MAX + 1) % (2 * (LLONG_MAX + 1))) - (LLONG_MAX + 1)}

\* c with ch recorded as skipped by the current call (EOF is no character).
Skipped(c, ch) == IF ch = EOF THEN c ELSE [c EXCEPT !.skipped = Append(@, ch)]

\* The loop inside a comment, entered after its opening "**".  Returns the
\* context and whether the closing "**" was found before the end of the file.
RECURSIVE comment_loop(_)
comment_loop(c) ==
    Let(next_char(c), LAMBDA r :
    IF r.c = EOF
    THEN [ctx |-> report_error(r.ctx, "Unterminated comment."), closed |-> FALSE]
    ELSE IF r.c = "*"
    THEN Let(next_char(Skipped(r.ctx, r.c)), LAMBDA r2 :
         IF r2.c = "*"
         THEN Let(next_char(Skipped(r2.ctx, r2.c)), LAMBDA r3 :
              [ctx |-> [r3.ctx EXCEPT !.current_char = r3.c], closed |-> TRUE])
         ELSE comment_loop(Skipped([r2.ctx EXCEPT !.current_char = r2.c], r2.c)))
    ELSE comment_loop(Skipped([r.ctx EXCEPT !.current_char = r.c], r.c)))

\* The first loop of get_next_token.  returned is TRUE when the function
\* returned token from inside the loop.
RECURSIVE skip_loop(_)
skip_loop(c) ==
    LET token_start_location == c.location
        char_class == get_char_class(c.current_char)
        broke(c1) == [ctx |-> c1, returned |-> FALSE,
                      token |-> Token("TOKEN_ERROR", <<>>, token_start_location)]
    IN  IF char_class = "CHAR_WHITESPACE"
        THEN Let(next_char(Skipped(c, c.current_char)), LAMBDA r :
             skip_loop([r.ctx EXCEPT !.current_char = r.c]))
        ELSE IF char_class = "CHAR_STAR"
        THEN Let(next_char(c), LAMBDA r :
             IF r.c = "*"
             THEN Let(comment_loop(Skipped(Skipped(r.ctx, c.current_char), r.c)), LAMBDA k :
                  IF k.closed THEN skip_loop(k.ctx)
                  ELSE [ctx |-> k.ctx, returned |-> TRUE,
                        token |-> Token("TOKEN_ERROR", <<>>, token_start_location)])
             ELSE broke(unget_char(r.ctx)))
        ELSE IF char_class = "CHAR_EOF"
        THEN [ctx |-> c, returned |-> TRUE,
              token |-> Token("TOKEN_EOF", <<"E", "O", "F">>, c.location)]
        ELSE broke(c)

should_consume_char_and_continue(state, next_state_from_table, current_char_class) ==
    \/ /\ state = "STATE_START"
       /\ next_state_from_table \in {"STATE_IDENTIFIER", "STATE_INTEGER", "STATE_PLUS",
                                     "STATE_COLON", "STATE_DASH", "STATE_STRING"}
    \/ /\ state \in {"STATE_IDENTIFIER", "STATE_INTEGER"}
       /\ next_state_from_table = state
    \/ /\ state \in {"STATE_PLUS", "STATE_COLON", "STATE_DASH"}
       /\ current_char_class = "CHAR_EQUALS"
    \/ /\ state = "STATE_STRING"
       /\ current_char_class \notin {"CHAR_QUOTE", "CHAR_EOF"}

\* case STATE_START: the type of a token of one character.
single_char_type(current_char_class) ==
    IF current_char_class = "CHAR_OPENB" THEN "TOKEN_OPENB"
    ELSE IF current_char_class = "CHAR_CLOSEB" THEN "TOKEN_CLOSEB"
    ELSE IF current_char_class = "CHAR_LPAREN" THEN "TOKEN_LPAREN"
    ELSE IF current_char_class = "CHAR_RPAREN" THEN "TOKEN_RPAREN"
    ELSE IF current_char_class = "CHAR_PLUS" THEN "TOKEN_PLUS"
    ELSE IF current_char_class = "CHAR_STAR" THEN "TOKEN_STAR"
    ELSE IF current_char_class = "CHAR_EOL_SEMICOLON" THEN "TOKEN_EOL"
    ELSE IF current_char_class = "CHAR_EOF" THEN "TOKEN_EOF"
    ELSE "TOKEN_ERROR"

\* case STATE_FINAL: the type by the lexeme.
final_type(lexeme) ==
    IF lexeme = <<":", "=">> THEN "TOKEN_ASSIGN"
    ELSE IF lexeme = <<"+", "=">> THEN "TOKEN_PLUS_ASSIGN"
    ELSE IF lexeme = <<"-", "=">> THEN "TOKEN_MINUS_ASSIGN"
    ELSE IF lexeme[1] = "\"" /\ lexeme[Len(lexeme)] = "\"" THEN "TOKEN_STRING"
    ELSE "TOKEN_ERROR"

\* c with current_char = next_char(c).
advance(c) == Let(next_char(c), LAMBDA r : [r.ctx EXCEPT !.current_char = r.c])

\* The else branch of the second loop: token.lexeme is copied from
\* lexeme_buffer, then the switch on the state the loop was in.
end_of_token(c, state, current_char_class, location) ==
    LET lexeme == c.lexeme_buffer
        made(c1, type) == [ctx |-> c1, token |-> Token(type, lexeme, location),
                           lexeme_set |-> TRUE]
    IN  CASE state = "STATE_START" ->
             Let(IF Len(c.lexeme_buffer) < MaxLexemeLength - 1
                 THEN [c EXCEPT !.lexeme_buffer = Append(@, c.current_char)] ELSE c,
                 LAMBDA c1 :
             Let(IF single_char_type(current_char_class) = "TOKEN_ERROR"
                 THEN report_error(c1, "Unexpected single character or unhandled transition from START state.")
                 ELSE c1, LAMBDA c2 :
             made(advance(c2), single_char_type(current_char_class))))
          [] state = "STATE_IDENTIFIER" ->
             Let(unget_char(c), LAMBDA c1 :
             Let(lookup_symbol(c1, c1.lexeme_buffer), LAMBDA sym_idx :
             IF sym_idx # -1 /\ c1.symbol_table[sym_idx + 1].is_keyword
             THEN made(c1, c1.symbol_table[sym_idx + 1].type)
             ELSE IF sym_idx = -1
             THEN Let(add_to_symbol_table(c1, c1.lexeme_buffer, "TOKEN_IDENTIFIER", FALSE),
                      LAMBDA a :
                  [ctx |-> a.ctx, lexeme_set |-> TRUE,
                   token |-> [Token("TOKEN_IDENTIFIER", lexeme, location)
                                 EXCEPT !.symbol_index = a.index]])
             ELSE [ctx |-> c1, lexeme_set |-> TRUE,
                   token |-> [Token("TOKEN_IDENTIFIER", lexeme, location)
                                 EXCEPT !.symbol_index = sym_idx]]))
          [] state = "STATE_INTEGER" -> made(unget_char(c), "TOKEN_INTEGER")
          [] state = "STATE_PLUS" -> made(unget_char(c), "TOKEN_PLUS")
          [] state = "STATE_COLON" ->
             made(unget_char(report_error(c, "Unexpected standalone colon. Expected ':='.")),
                  "TOKEN_ERROR")
          [] state = "STATE_DASH" ->
             made(unget_char(report_error(c, "Unexpected standalone dash. Expected '-=' or start of negative number.")),
                  "TOKEN_ERROR")
          [] state = "STATE_STRING" ->
             IF current_char_class = "CHAR_EOF"
             THEN made(report_error(c, "Unterminated string literal at EOF."), "TOKEN_ERROR")
             ELSE made(unget_char(report_error(c, "Internal error in string lexing logic.")),
                       "TOKEN_ERROR")
          [] state = "STATE_FINAL" ->
             IF final_type(c.lexeme_buffer) = "TOKEN_ERROR"
             THEN made(report_error(c, "Unknown token identified from STATE_FINAL."), "TOKEN_ERROR")
             ELSE made(c, final_type(c.lexeme_buffer))
          [] state = "STATE_EOL" -> made(advance(c), "TOKEN_EOL")
          [] state = "STATE_EOF" -> made(c, "TOKEN_EOF")
          [] OTHER ->
             made(advance(report_error(c, "Unhandled lexer state transition or unexpected character sequence.")),
                  "TOKEN_ERROR")

\* The second loop of get_next_token.  lexeme_set is FALSE when the loop is
\* left with token.lexeme never written.
RECURSIVE fsm_loop(_, _, _)
fsm_loop(c, state, location) ==
    LET current_char_class == get_char_class(c.current_char)
        next_state_from_table == transition_table[state][current_char_class]
    IN  IF should_consume_char_and_continue(state, next_state_from_table, current_char_class)
        THEN IF Len(c.lexeme_buffer) < MaxLexemeLength - 1
             THEN Let(advance([c EXCEPT !.lexeme_buffer = Append(@, c.current_char)]),
                      LAMBDA c1 : fsm_loop(c1, next_state_from_table, location))
             ELSE [ctx |-> report_error(c, "Lexeme too long."), lexeme_set |-> FALSE,
                   token |-> Token("TOKEN_ERROR", <<>>, location)]
        ELSE end_of_token(c, state, current_char_class, location)

\* Returns the context after the call, the token, and lexeme_set.
get_next_token(c) ==
    Let(skip_loop([c EXCEPT !.skipped = <<>>]), LAMBDA k :
    IF k.returned THEN [ctx |-> k.ctx, token |-> k.token, lexeme_set |-> TRUE]
    ELSE fsm_loop([k.ctx EXCEPT !.lexeme_buffer = <<>>], "STATE_START", k.token.location))

(***************************************************************************)
(* The values the BigInt specification draws its operands from             *)
(***************************************************************************)
Mag(limbs) ==
    LET RECURSIVE sum(_)
        sum(i) == IF i > NUM_LIMBS THEN 0
                  ELSE limbs[i] * Pow(LimbBase, i - 1) + sum(i + 1)
    IN  sum(1)

Value(x) == x.sign * Mag(x.limbs)

\* Low limb, the four middle limbs alike, high limb: carries and borrows run
\* through every limb and out of the last one.
OperandLimbs ==
    {[i \in 1..NUM_LIMBS |-> IF i = 1 THEN lo ELSE IF i = NUM_LIMBS THEN hi ELSE mid] :
        lo \in {0, 1, LimbBase - 1}, mid \in {0, LimbBase - 1}, hi \in {0, 1, LimbBase - 1}}

Operands ==
    {[limbs |-> l, sign |-> s] : l \in OperandLimbs, s \in {1, -1}}
        \ {[limbs |-> ZeroLimbs, sign |-> -1]}

ShortDigits == 4

InputDigits == 8

\* Every digit string of up to ShortDigits digits over 0, 1 and 9, and the
\* longer ones, up to InputDigits digits, that are a 1 or a 9 followed by
\* zeros or by nines: they reach, and pass, the capacity of NUM_LIMBS limbs.
DigitStrings ==
    (SeqsUpTo({"0", "1", "9"}, ShortDigits) \ {<<>>})
        \cup {<<d>> \o [i \in 1..k |-> e] :
                 d \in {"1", "9"}, e \in {"0", "9"}, k \in ShortDigits..(InputDigits - 1)}

NamedStrings ==
    {<<"0", "0", "0", "1", "2", "3">>, <<"1", "2", "3">>, <<"4", "5", "6", "7", "8">>,
     <<"7">>, <<"8">>}

Signed(S) == S \cup {<<"+">> \o s : s \in S} \cup {<<"-">> \o s : s \in S}

InvalidStrings == {<<>>, <<"-">>, <<"1", "a">>, <<"a", "1">>, <<"-", "-", "1">>, <<"1", "+">>}

DecimalInputs == Signed(DigitStrings \cup NamedStrings) \cup InvalidStrings

\* No call yet.  prev is the call before the last one; val is the native
\* integer last handed to big_int_from_long_long; ret is the int and ok the
\* bool the last call returned; out_val is the caller's long long that
\* big_int_to_long_long writes through its pointer; n counts the calls made.
NoCall ==
    [fn |-> "none", prev |-> "none", result |-> "r", a |-> "a", b |-> "b",
     va |-> 0, vb |-> 0, val |-> 0, ret |-> 0, ok |-> TRUE, out_val |-> 0, n |-> 0]

\* The BigInt objects when a specification does not use them.
BigIdle ==
    /\ mem = [o \in Callers \cup Locals |-> ZeroBigInt]
    /\ str = <<>>
    /\ str_buffer = <<>>
    /\ call = NoCall

\* The lexer when a specification does not run it.
LexIdle ==
    /\ ctx = [input |-> <<>>]
    /\ tokens = <<>>
    /\ capacity = 0
    /\ num_tokens_out = -1
    /\ pieces = <<>>

\* FOLLOW and the flag of the fixed-point loops before they are computed.
SetIdle ==
    /\ followSetsForNonTerminals = <<>>
    /\ pass_changed = FALSE

\* No AST node allocated, the interpreter not started, main() running.
RunIdle ==
    /\ heap = <<>>
    /\ interp = [frames |-> <<>>]
    /\ exit_status = -1
    /\ released = <<>>

\* The parser generator and the driver when a specification does not run them.
LrIdle ==
    /\ grammar = [productions |-> <<>>]
    /\ nullable_status = <<>>
    /\ firstSetsForNonTerminals = <<>>
    /\ canonical_collection = <<>>
    /\ queue = <<>>
    /\ queue_front = 0
    /\ action_table = <<>>
    /\ goto_table = <<>>
    /\ conflicts = <<>>
    /\ freed_set = "none"
    /\ parser = [input |-> <<>>]
    /\ root_ast = [type |-> "none"]
    /\ pc = [at |-> "idle", i |-> 0]
    /\ SetIdle
    /\ RunIdle

\* The arithmetic specification starts from two operands a and b and a zero r.
InitBig ==
    /\ \E x \in Operands, y \in Operands :
          mem = [o \in Callers \cup Locals |->
                    IF o = "a" THEN x ELSE IF o = "b" THEN y ELSE ZeroBigInt]
    /\ str = <<>>
    /\ str_buffer = <<>>
    /\ call = NoCall
    /\ stderr = <<>>
    /\ LexIdle
    /\ LrIdle

\* The conversion specification starts from a decimal string.
InitStr ==
    /\ mem = [o \in Callers \cup Locals |-> ZeroBigInt]
    /\ str \in DecimalInputs
    /\ str_buffer = <<>>
    /\ call = NoCall
    /\ stderr = <<>>
    /\ LexIdle
    /\ LrIdle

Called(fn, result, a, b) ==
    [fn |-> fn, result |-> result, a |-> a, b |-> b,
     va |-> Value(mem[a]), vb |-> Value(mem[b]),
     prev |-> call.fn, val |-> call.val, ret |-> 0, ok |-> TRUE,
     out_val |-> call.out_val, n |-> call.n + 1]

BigAbsAdd(result, a, b) ==
    /\ call.fn = "none"
    /\ mem' = Return(big_int_abs_add(mem, result, a, b))
    /\ call' = Called("big_int_abs_add", result, a, b)
    /\ UNCHANGED <<str, str_buffer, stderr, lexVars, lrVars, parseVars, pc, setVars, runVars>>

BigAdd(result, a, b) ==
    /\ call.fn = "none"
    /\ mem' = Return(big_int_add(mem, result, a, b))
    /\ call' = Called("big_int_add", result, a, b)
    /\ UNCHANGED <<str, str_buffer, stderr, lexVars, lrVars, parseVars, pc, setVars, runVars>>

BigSub(result, a, b) ==
    /\ call.fn = "none"
    /\ mem' = Return(big_int_sub(mem, result, a, b))
    /\ call' = Called("big_int_sub", result, a, b)
    /\ UNCHANGED <<str, str_buffer, stderr, lexVars, lrVars, parseVars, pc, setVars, runVars>>

\* The operands are const: the call leaves memory alone and returns an int.
BigAbsCompare(a, b) ==
    /\ call.fn = "none"
    /\ call' = [Called("big_int_abs_compare", "r", a, b)
                   EXCEPT !.ret = big_int_abs_compare(mem, a, b)]
    /\ UNCHANGED <<mem, str, str_buffer, stderr, lexVars, lrVars, parseVars, pc, setVars, runVars>>

BigFromString ==
    /\ call.fn = "none"
    /\ LET r == big_int_from_string(mem, "r", str)
       IN  /\ mem' = Return(r.m)
           /\ stderr' = stderr \o r.err
    /\ call' = Called("big_int_from_string", "r", "a", "b")
    /\ UNCHANGED <<str, str_buffer, lexVars, lrVars, parseVars, pc, setVars, runVars>>

\* The caller prints the number it parsed.  When the terminator lands past
\* the end of buffer the behaviour is undefined: the call either returns the
\* string all the same or the process is stopped at the function's return.
BigToString ==
    /\ call.fn = "big_int_from_string"
    /\ call' = Called("big_int_to_string", "r", "a", "b")
    /\ \/ /\ str_buffer' = big_int_to_string(mem, "r")
          /\ UNCHANGED stderr
       \/ /\ to_string_overruns(mem, "r")
          /\ str_buffer' = str_buffer
          /\ stderr' = Append(stderr, "stack smashing detected")
    /\ UNCHANGED <<mem, str, lexVars, lrVars, parseVars, pc, setVars, runVars>>

NextBig ==
    \E result \in Callers, a \in {"a", "b"}, b \in {"a", "b"} :
        \/ BigAbsAdd(result, a, b)
        \/ BigAdd(result, a, b)
        \/ BigSub(result, a, b)
        \/ BigAbsCompare(a, b)

SpecBig == InitBig /\ [][NextBig]_vars

\* Every long long.
Natives == LLONG_MIN..LLONG_MAX

BigFromLongLong(val) ==
    /\ call.fn = "none"
    /\ mem' = big_int_from_long_long(mem, "r", val)
    /\ call' = [Called("big_int_from_long_long", "r", "a", "b") EXCEPT !.val = val]
    /\ UNCHANGED <<str, str_buffer, stderr, lexVars, lrVars, parseVars, pc, setVars, runVars>>

\* The caller converts back what it got from a string or from a long long.
BigToLongLong ==
    /\ call.fn \in {"big_int_from_string", "big_int_from_long_long"}
    /\ LET r == big_int_to_long_long(mem, "r", call.out_val)
       IN  /\ call' = [Called("big_int_to_long_long", "r", "r", "r")
                          EXCEPT !.ok = r.ok, !.out_val = r.out_val]
           /\ stderr' = stderr \o r.err
    /\ UNCHANGED <<mem, str, str_buffer, lexVars, lrVars, parseVars, pc, setVars, runVars>>

NextStr ==
    \/ BigFromString
    \/ BigToString
    \/ \E val \in Natives : BigFromLongLong(val)
    \/ BigToLongLong

SpecStr == InitStr /\ [][NextStr]_vars

(***************************************************************************)
(* Sequences of calls: a caller that zeroes, converts, adds and subtracts  *)
(* in any order, each call working on what the calls before it left.       *)
(***************************************************************************)
MaxCalls == 3

NativeInputs == {LLONG_MIN, -1, 0, 1, LLONG_MAX}

CallStrings == {<<"-", "0">>, <<"-">>, <<"-", "1", "a">>, <<"-", "1">>, <<"9">>}

InitCalls ==
    /\ BigIdle
    /\ stderr = <<>>
    /\ LexIdle
    /\ LrIdle

CallZero(num) ==
    /\ call.n < MaxCalls
    /\ mem' = big_int_zero(mem, num)
    /\ call' = Called("big_int_zero", num, num, num)
    /\ UNCHANGED <<str, str_buffer, stderr, lexVars, lrVars, parseVars, pc, setVars, runVars>>

CallFromLongLong(num, val) ==
    /\ call.n < MaxCalls
    /\ mem' = big_int_from_long_long(mem, num, val)
    /\ call' = [Called("big_int_from_long_long", num, num, num) EXCEPT !.val = val]
    /\ UNCHANGED <<str, str_buffer, stderr, lexVars, lrVars, parseVars, pc, setVars, runVars>>

CallFromString(num, s) ==
    /\ call.n < MaxCalls
    /\ LET r == big_int_from_string(mem, num, s)
       IN  /\ mem' = Return(r.m)
           /\ stderr' = stderr \o r.err
    /\ str' = s
    /\ call' = Called("big_int_from_string", num, num, num)
    /\ UNCHANGED <<str_buffer, lexVars, lrVars, parseVars, pc, setVars, runVars>>

CallAdd(result, a, b) ==
    /\ call.n < MaxCalls
    /\ mem' = Return(big_int_add(mem, result, a, b))
    /\ call' = Called("big_int_add", result, a, b)
    /\ UNCHANGED <<str, str_buffer, stderr, lexVars, lrVars, parseVars, pc, setVars, runVars>>

CallSub(result, a, b) ==
    /\ call.n < MaxCalls
    /\ mem' = Return(big_int_sub(mem, result, a, b))
    /\ call' = Called("big_int_sub", result, a, b)
    /\ UNCHANGED <<str, str_buffer, stderr, lexVars, lrVars, parseVars, pc, setVars, runVars>>

NextCalls ==
    \/ \E num \in {"a", "b"} : CallZero(num)
    \/ \E num \in {"a", "b"}, val \in NativeInputs : CallFromLongLong(num, val)
    \/ \E num \in {"a", "b"}, s \in CallStrings : CallFromString(num, s)
    \/ \E result \in {"a", "r"}, a \in {"a", "b"}, b \in {"a", "b"} : CallAdd(result, a, b)
    \/ \E result \in {"a", "r"}, a \in {"a", "b"}, b \in {"a", "b"} : CallSub(result, a, b)

SpecCalls == InitCalls /\ [][NextCalls]_vars

(***************************************************************************)
(* The lexer specification: lexer() on a file                              *)
(***************************************************************************)
MaxInputLen == 3

LexAlphabet == {"x", "5", "+", "-", "=", ":", ";", " ", "\n", "*", "\""}

\* Programs and fragments longer than MaxInputLen, or with other characters.
NamedInputs ==
    {<<"x", " ", "-", "=", " ", "5">>,
     <<"x", " ", ":", "=", " ", "5", ";">>,
     <<"x", ":", "=", "5", ";">>,
     <<"n", "u", "m", "b", "e", "r", " ", "x", ";">>,
     <<"w", "r", "i", "t", "e", " ", "x", " ", "a", "n", "d", " ", "n", "e", "w", "l", "i", "n", "e", ";">>,
     <<"r", "e", "p", "e", "a", "t", " ", "5", " ", "t", "i", "m", "e", "s", " ", "{", "}">>,
     <<"9">>, <<"5", "5">>, <<"-", "9">>, <<"0", "0", "5">>,
     <<"x", "\n", "y">>, <<"x", "\n", "\n", ":">>, <<"(", "x", ")">>, <<"@">>, <<"x", "@">>,
     <<"*", "*", " ", "x", " ", "*", "*", "y">>, <<"*", "*", "*", "x", "*", "*", "*", ";">>,
     <<"\"", "x", " ", "y", "\"">>, <<"\"", "x", "\n">>,
     <<"x", " ", "y", " ", "z">>, <<"x", " ", "x", " ", "y", " ", "x">>,
     <<"x", "x", "x", "x", "x", "x", "x", "x", "x">>, <<"x", "5", "_", "y">>,
     <<"a", " ", "*", "*", " ", "a", "b", "c", " ", "*", "*", " ", "b">>,
     <<"a", " ", "*", "*", " ", "a", "b", "c">>,
     <<"+", "a", "n", "d">>, <<"a", "n", "d", " ", "a", "n", "d", "y">>,
     <<"x", "+", "=", "5", ";">>, <<"x", "-", "=", "5", ";">>,
     <<"\"", "a", "b", "c", "\"", ";">>, <<"x", " ", "\"", "a", "b">>,
     <<"x", "\n", " ", "y", " ", "*", "*", "\n", "*", "*", "\n", "x", ";">>}

LexInputs == SeqsUpTo(LexAlphabet, MaxInputLen) \cup NamedInputs

\* The capacity lexer() starts the tokens array with (100 in the code), and
\* the number of tokens beyond which realloc cannot grow it.
TokenCapacity == 4

HeapTokens == 16

\* What token.lexeme can hold when the function never wrote it.
Garbage == {<<>>, <<"?">>}

InitLex ==
    /\ ctx \in {init_lexer(input) : input \in LexInputs}
    /\ tokens = <<>>
    /\ capacity = TokenCapacity
    /\ num_tokens_out = -1
    /\ pieces = <<>>
    /\ stderr = <<>>
    /\ BigIdle
    /\ LrIdle

\* The condition of the do-while of lexer().
lexer_loop_continues(token) == token.type # "TOKEN_EOF" /\ token.type # "TOKEN_ERROR"

\* One iteration of the do-while: the array is grown when it is full, and
\* lexer() returns NULL with *num_tokens_out = 0 when realloc fails; then
\* get_next_token, tokens[tokencount++] = token.
LexerIteration ==
    /\ num_tokens_out = -1
    /\ IF tokens = <<>> THEN TRUE ELSE lexer_loop_continues(tokens[Len(tokens)])
    /\ IF Len(tokens) >= capacity /\ capacity * 2 > HeapTokens
       THEN /\ stderr' = Append(stderr, "Memory re-allocation failed for tokens array.")
            /\ tokens' = <<>>
            /\ num_tokens_out' = 0
            /\ capacity' = capacity * 2
            /\ UNCHANGED <<ctx, pieces>>
       ELSE /\ capacity' = IF Len(tokens) >= capacity THEN capacity * 2 ELSE capacity
            /\ \E r \in {get_next_token(ctx)} :
               \E lexeme \in (IF r.lexeme_set THEN {r.token.lexeme} ELSE Garbage),
                  int_value \in (IF r.token.type = "TOKEN_INTEGER"
                                 THEN atoll(r.ctx.lexeme_buffer) ELSE {0}) :
                  /\ tokens' = Append(tokens, [r.token EXCEPT !.lexeme = lexeme,
                                                              !.int_value = int_value])
                  /\ pieces' = pieces \o <<r.ctx.skipped>>
                                  \o (IF r.token.type = "TOKEN_EOF" THEN <<>> ELSE <<lexeme>>)
                  /\ ctx' = [r.ctx EXCEPT !.err = <<>>]
                  /\ stderr' = stderr \o r.ctx.err
            /\ UNCHANGED num_tokens_out
    /\ UNCHANGED <<bigVars, lrVars, parseVars, pc, setVars, runVars>>

\* After the loop: *num_tokens_out = tokencount; return tokens.
LexerReturn ==
    /\ num_tokens_out = -1
    /\ IF tokens = <<>> THEN FALSE ELSE ~lexer_loop_continues(tokens[Len(tokens)])
    /\ num_tokens_out' = Len(tokens)
    /\ UNCHANGED <<ctx, tokens, capacity, pieces, stderr, bigVars, lrVars, parseVars, pc,
                   setVars, runVars>>

NextLex == LexerIteration \/ LexerReturn

SpecLex == InitLex /\ [][NextLex]_vars

(***************************************************************************)
(* parser.h / parser.c / main.c: the grammar, nullable and FIRST           *)
(*                                                                         *)
(* A grammar symbol is its type and its id (the name is only printed).     *)
(* Terminal ids are the TokenType values of lexer.h.  main.c stores each   *)
(* nonterminal at all_non_terminals_map[id] and compute_nullable_set exits *)
(* on an empty entry of that map, so the ids of the 14 nonterminals are    *)
(* 0..13 in some order; the enum that lists them for main.c is not part of *)
(* the sources, and SymbolIDs takes the order of the enum in parser.h with *)
(* its commented-out entries restored.  production_id, dot_position, state *)
(* ids and table columns count from 0 as in the code; a TLA+ sequence that *)
(* holds them is indexed one higher.                                       *)
(***************************************************************************)
MAX_TERMINALS == 200

MAX_NON_TERMINALS == 200

T_EOF == 199

TokenType ==
    [TOKEN_EOF |-> 0, TOKEN_IDENTIFIER |-> 1, TOKEN_WRITE |-> 2, TOKEN_AND |-> 3,
     TOKEN_REPEAT |-> 4, TOKEN_NEWLINE |-> 5, TOKEN_TIMES |-> 6, TOKEN_NUMBER |-> 7,
     TOKEN_INTEGER |-> 8, TOKEN_ASSIGN |-> 9, TOKEN_PLUS_ASSIGN |-> 10,
     TOKEN_MINUS_ASSIGN |-> 11, TOKEN_OPENB |-> 12, TOKEN_CLOSEB |-> 13,
     TOKEN_STRING |-> 14, TOKEN_EOL |-> 15, TOKEN_LPAREN |-> 16, TOKEN_RPAREN |-> 17,
     TOKEN_ERROR |-> 18]

NUM_TOKEN_TYPES == 19

SymbolIDs ==
    [NT_PROGRAM |-> 0, NT_STATEMENT_LIST |-> 1, NT_STATEMENT |-> 2, NT_DECLARATION |-> 3,
     NT_ASSIGNMENT |-> 4, NT_INCREMENT |-> 5, NT_DECREMENT |-> 6, NT_WRITE_STATEMENT |-> 7,
     NT_LOOP_STATEMENT |-> 8, NT_CODE_BLOCK |-> 9, NT_OUTPUT_LIST |-> 10,
     NT_LIST_ELEMENT |-> 11, NT_INT_VALUE |-> 12, NT_S_PRIME |-> 13]

NUM_NON_TERMINALS_DEFINED == 14

create_terminal(id) == [type |-> "SYMBOL_TERMINAL", id |-> id]

create_non_terminal(id) == [type |-> "SYMBOL_NONTERMINAL", id |-> id]

create_production(left, right, action) ==
    [left_symbol |-> left, right_symbols |-> right, semantic_action |-> action]

all_terminals_map == [i \in 1..NUM_TOKEN_TYPES |-> create_terminal(i - 1)]

all_non_terminals_map == [i \in 1..NUM_NON_TERMINALS_DEFINED |-> create_non_terminal(i - 1)]

\* A terminal and a nonterminal of main(), by the name of its id.
Tm(name) == all_terminals_map[TokenType[name] + 1]

Nt(name) == all_non_terminals_map[SymbolIDs[name] + 1]

\* productions_array as main() fills it, production 0 first.
productions_array ==
    << create_production(Nt("NT_S_PRIME"), <<Nt("NT_PROGRAM"), Tm("TOKEN_EOF")>>,
                         "semantic_action_program"),
       create_production(Nt("NT_PROGRAM"), <<Nt("NT_STATEMENT_LIST")>>,
                         "semantic_action_passthrough"),
       create_production(Nt("NT_STATEMENT_LIST"), <<Nt("NT_STATEMENT_LIST"), Nt("NT_STATEMENT")>>,
                         "semantic_action_statement_list_multi"),
       create_production(Nt("NT_STATEMENT_LIST"), <<Nt("NT_STATEMENT")>>,
                         "semantic_action_statement_list_single"),
       create_production(Nt("NT_STATEMENT"), <<Nt("NT_ASSIGNMENT"), Tm("TOKEN_EOL")>>,
                         "semantic_action_statement_with_semicolon"),
       create_production(Nt("NT_STATEMENT"), <<Nt("NT_DECLARATION"), Tm("TOKEN_EOL")>>,
                         "semantic_action_statement_with_semicolon"),
       create_production(Nt("NT_STATEMENT"), <<Nt("NT_DECREMENT"), Tm("TOKEN_EOL")>>,
                         "semantic_action_statement_with_semicolon"),
       create_production(Nt("NT_STATEMENT"), <<Nt("NT_INCREMENT"), Tm("TOKEN_EOL")>>,
                         "semantic_action_statement_with_semicolon"),
       create_production(Nt("NT_STATEMENT"), <<Nt("NT_WRITE_STATEMENT"), Tm("TOKEN_EOL")>>,
                         "semantic_action_statement_with_semicolon"),
       create_production(Nt("NT_STATEMENT"), <<Nt("NT_LOOP_STATEMENT")>>,
                         "semantic_action_passthrough"),
       create_production(Nt("NT_DECLARATION"), <<Tm("TOKEN_NUMBER"), Tm("TOKEN_IDENTIFIER")>>,
                         "semantic_action_declaration"),
       create_production(Nt("NT_ASSIGNMENT"),
                         <<Tm("TOKEN_IDENTIFIER"), Tm("TOKEN_ASSIGN"), Nt("NT_INT_VALUE")>>,
                         "semantic_action_assignment"),
       create_production(Nt("NT_DECREMENT"),
                         <<Tm("TOKEN_IDENTIFIER"), Tm("TOKEN_MINUS_ASSIGN"), Nt("NT_INT_VALUE")>>,
                         "semantic_action_decrement"),
       create_production(Nt("NT_INCREMENT"),
                         <<Tm("TOKEN_IDENTIFIER"), Tm("TOKEN_PLUS_ASSIGN"), Nt("NT_INT_VALUE")>>,
                         "semantic_action_increment"),
       create_production(Nt("NT_WRITE_STATEMENT"), <<Tm("TOKEN_WRITE"), Nt("NT_OUTPUT_LIST")>>,
                         "semantic_action_write_statement"),
       create_production(Nt("NT_LOOP_STATEMENT"),
                         <<Tm("TOKEN_REPEAT"), Nt("NT_INT_VALUE"), Tm("TOKEN_TIMES"), Nt("NT_STATEMENT")>>,
                         "semantic_action_loop_statement_single"),
       create_production(Nt("NT_LOOP_STATEMENT"),
                         <<Tm("TOKEN_REPEAT"), Nt("NT_INT_VALUE"), Tm("TOKEN_TIMES"), Nt("NT_CODE_BLOCK")>>,
                         "semantic_action_loop_statement_block"),
       create_production(Nt("NT_CODE_BLOCK"),
                         <<Tm("TOKEN_OPENB"), Nt("NT_STATEMENT_LIST"), Tm("TOKEN_CLOSEB")>>,
                         "semantic_action_code_block"),
       create_production(Nt("NT_OUTPUT_LIST"),
                         <<Nt("NT_OUTPUT_LIST"), Tm("TOKEN_AND"), Nt("NT_LIST_ELEMENT")>>,
                         "semantic_action_output_list_multi"),
       create_production(Nt("NT_OUTPUT_LIST"), <<Nt("NT_LIST_ELEMENT")>>,
                         "semantic_action_output_list_single"),
       create_production(Nt("NT_INT_VALUE"), <<Tm("TOKEN_INTEGER")>>,
                         "semantic_action_int_value_from_integer"),
       create_production(Nt("NT_INT_VALUE"), <<Tm("TOKEN_IDENTIFIER")>>,
                         "semantic_action_int_value_from_identifier"),
       create_production(Nt("NT_LIST_ELEMENT"), <<Nt("NT_INT_VALUE")>>,
                         "semantic_action_list_element"),
       create_production(Nt("NT_LIST_ELEMENT"), <<Tm("TOKEN_STRING")>>,
                         "semantic_action_list_element"),
       create_production(Nt("NT_LIST_ELEMENT"), <<Tm("TOKEN_NEWLINE")>>,
                         "semantic_action_list_element") >>

\* The Grammar of main(): the grammar the program ships.
Grammar(productions) ==
    [productions |-> productions,
     terminals |-> all_terminals_map,
     non_terminals |-> all_non_terminals_map,
     start_symbol |-> Nt("NT_S_PRIME")]

ShippedGrammar == Grammar(productions_array)

\* The production with this production_id, and its right_count.
Production(g, production_id) == g.productions[production_id + 1]

right_count(p) == Len(p.right_symbols)

\* compute_nullable_set: is every symbol of the right-hand side, from j on,
\* a nullable nonterminal?
RECURSIVE all_right_nullable(_, _, _)
all_right_nullable(right_symbols, j, nullable) ==
    IF j > Len(right_symbols) THEN TRUE
    ELSE IF right_symbols[j].type = "SYMBOL_TERMINAL" THEN FALSE
    ELSE IF ~nullable[right_symbols[j].id] THEN FALSE
    ELSE all_right_nullable(right_symbols, j + 1, nullable)

\* One production of a pass of compute_nullable_set.
nullable_production(p, nullable, changed) ==
    IF all_right_nullable(p.right_symbols, 1, nullable) /\ ~nullable[p.left_symbol.id]
    THEN [nullable |-> [nullable EXCEPT ![p.left_symbol.id] = TRUE], changed |-> TRUE]
    ELSE [nullable |-> nullable, changed |-> changed]

nullable_pass(g, nullable) ==
    ForLoop(LAMBDA acc, i : nullable_production(Production(g, i), acc.nullable, acc.changed),
            [nullable |-> nullable, changed |-> FALSE], 0, Len(g.productions) - 1)

RECURSIVE nullable_loop(_, _)
nullable_loop(g, nullable) ==
    Let(nullable_pass(g, nullable),
        LAMBDA r : IF r.changed THEN nullable_loop(g, r.nullable) ELSE r.nullable)

compute_nullable_set(g) == nullable_loop(g, [id \in 0..(MAX_NON_TERMINALS - 1) |-> FALSE])

first_production_first_symbol_only(A_id, right_symbols, j, first, changed, nullable) ==
    IF j > Len(right_symbols) THEN [first |-> first, changed |-> changed]
    ELSE IF right_symbols[j].type = "SYMBOL_TERMINAL"
    THEN [first |-> [first EXCEPT ![A_id] = @ \cup {right_symbols[j].id}],
          changed |-> changed \/ right_symbols[j].id \notin first[A_id]]
    ELSE [first |-> [first EXCEPT ![A_id] = @ \cup first[right_symbols[j].id]],
          changed |-> changed \/ ~(first[right_symbols[j].id] \subseteq first[A_id])]

\* compute_first_sets: the right-hand side of one production, from j on.
RECURSIVE first_production(_, _, _, _, _, _)
first_production(A_id, right_symbols, j, first, changed, nullable) ==
    IF j > Len(right_symbols) THEN [first |-> first, changed |-> changed]
    ELSE IF right_symbols[j].type = "SYMBOL_TERMINAL"
    THEN IF right_symbols[j].id \in first[A_id]
         THEN [first |-> first, changed |-> changed]
         ELSE [first |-> [first EXCEPT ![A_id] = @ \cup {right_symbols[j].id}], changed |-> TRUE]
    ELSE Let([first |-> [first EXCEPT ![A_id] = @ \cup first[right_symbols[j].id]],
              changed |-> changed \/ ~(first[right_symbols[j].id] \subseteq first[A_id])],
             LAMBDA r : IF ~nullable[right_symbols[j].id] THEN r
                        ELSE first_production(A_id, right_symbols, j + 1, r.first, r.changed, nullable))

first_pass(g, first, nullable) ==
    ForLoop(LAMBDA acc, i : first_production(Production(g, i).left_symbol.id,
                                             Production(g, i).right_symbols, 1,
                                             acc.first, acc.changed, nullable),
            [first |-> first, changed |-> FALSE], 0, Len(g.productions) - 1)

RECURSIVE first_loop(_, _, _)
first_loop(g, first, nullable) ==
    Let(first_pass(g, first, nullable),
        LAMBDA r : IF r.changed THEN first_loop(g, r.first, nullable) ELSE r.first)

compute_first_sets(g, nullable) ==
    first_loop(g, [id \in 0..(MAX_NON_TERMINALS - 1) |-> {}], nullable)

\* The index in the item set of the item with this core, 0 for NULL.
find_item_by_core(set, prod_id, dot_pos) ==
    IF \E i \in 1..Len(set) : set[i].production_id = prod_id /\ set[i].dot_position = dot_pos
    THEN CHOOSE i \in 1..Len(set) : set[i].production_id = prod_id /\ set[i].dot_position = dot_pos
                                    /\ \A j \in 1..(i - 1) : ~(set[j].production_id = prod_id
                                                               /\ set[j].dot_position = dot_pos)
    ELSE 0

\* closure: FIRST of the symbols Yk that follow the nonterminal after the
\* dot, and whether all of them are nullable.
RECURSIVE first_beta_loop(_, _, _, _, _)
first_beta_loop(right_symbols, k, first_beta, nullable, first) ==
    IF k > Len(right_symbols) THEN [first_beta |-> first_beta, beta_is_nullable |-> TRUE]
    ELSE IF right_symbols[k].type = "SYMBOL_TERMINAL"
    THEN [first_beta |-> first_beta \cup {right_symbols[k].id}, beta_is_nullable |-> FALSE]
    ELSE IF ~nullable[right_symbols[k].id]
    THEN [first_beta |-> first_beta \cup first[right_symbols[k].id], beta_is_nullable |-> FALSE]
    ELSE first_beta_loop(right_symbols, k + 1, first_beta \cup first[right_symbols[k].id],
                         nullable, first)

\* closure: the lookahead set of the items that current_item asks for.
new_item_lookahead(p, current_item, nullable, first) ==
    Let(first_beta_loop(p.right_symbols, current_item.dot_position + 2, {}, nullable, first),
        LAMBDA b : b.first_beta
                   \cup (IF b.beta_is_nullable THEN current_item.lookahead_set ELSE {}))

closure_candidate_merge_unflagged(items, changed, production_id, lookahead_set) ==
    Let(find_item_by_core(items, production_id, 0),
        LAMBDA existing_item :
            IF existing_item = 0
            THEN [items |-> Append(items, [production_id |-> production_id, dot_position |-> 0,
                                           lookahead_set |-> lookahead_set]),
                  changed |-> TRUE]
            ELSE [items |-> [items EXCEPT ![existing_item].lookahead_set = @ \cup lookahead_set],
                  changed |-> changed])

closure_candidate_item_per_lookahead(items, changed, production_id, lookahead_set) ==
    IF \E i \in 1..Len(items) : /\ items[i].production_id = production_id
                                /\ items[i].dot_position = 0
                                /\ lookahead_set \subseteq items[i].lookahead_set
    THEN [items |-> items, changed |-> changed]
    ELSE [items |-> Append(items, [production_id |-> production_id, dot_position |-> 0,
                                   lookahead_set |-> lookahead_set]),
          changed |-> TRUE]

\* closure: the candidate is added, or its lookaheads join the item there is.
closure_candidate(items, changed, production_id, lookahead_set) ==
    Let(find_item_by_core(items, production_id, 0),
        LAMBDA existing_item :
            IF existing_item = 0
            THEN [items |-> Append(items, [production_id |-> production_id, dot_position |-> 0,
                                           lookahead_set |-> lookahead_set]),
                  changed |-> TRUE]
            ELSE IF lookahead_set \subseteq items[existing_item].lookahead_set
            THEN [items |-> items, changed |-> changed]
            ELSE [items |-> [items EXCEPT ![existing_item].lookahead_set = @ \cup lookahead_set],
                  changed |-> TRUE])

\* closure: the loop over the productions, for those of the nonterminal B.
closure_productions(g, items, changed, B_id, lookahead_set) ==
    ForLoop(LAMBDA acc, prod_idx :
                IF Production(g, prod_idx).left_symbol.id = B_id
                THEN closure_candidate(acc.items, acc.changed, prod_idx, lookahead_set)
                ELSE acc,
            [items |-> items, changed |-> changed], 0, Len(g.productions) - 1)

\* closure: one item of the snapshot.
closure_item(g, items, changed, current_item, nullable, first) ==
    IF current_item.dot_position < right_count(Production(g, current_item.production_id))
       /\ Production(g, current_item.production_id)
             .right_symbols[current_item.dot_position + 1].type = "SYMBOL_NONTERMINAL"
    THEN Let(new_item_lookahead(Production(g, current_item.production_id), current_item,
                                nullable, first),
             LAMBDA lookahead_set :
                 closure_productions(g, items, changed,
                     Production(g, current_item.production_id)
                         .right_symbols[current_item.dot_position + 1].id,
                     lookahead_set))
    ELSE [items |-> items, changed |-> changed]

\* closure: one pass over the snapshot of the items.
closure_pass(g, items_set, nullable, first) ==
    ForLoop(LAMBDA acc, i : closure_item(g, acc.items, acc.changed, items_set[i], nullable, first),
            [items |-> items_set, changed |-> FALSE], 1, Len(items_set))

RECURSIVE closure(_, _, _, _)
closure(items_set, g, nullable, first) ==
    Let(closure_pass(g, items_set, nullable, first),
        LAMBDA r : IF r.changed THEN closure(r.items, g, nullable, first) ELSE r.items)

\* compute_follow_sets: the symbols Y of beta, from k on, after the
\* nonterminal B: rules 2a and 2b.
RECURSIVE follow_beta(_, _, _, _, _, _, _)
follow_beta(right_symbols, k, B_id, follow, changed, nullable, first) ==
    IF k > Len(right_symbols)
    THEN [follow |-> follow, changed |-> changed, beta_is_nullable |-> TRUE]
    ELSE IF right_symbols[k].type = "SYMBOL_TERMINAL"
    THEN [follow |-> [follow EXCEPT ![B_id] = @ \cup {right_symbols[k].id}],
          changed |-> changed \/ right_symbols[k].id \notin follow[B_id],
          beta_is_nullable |-> FALSE]
    ELSE Let([follow |-> [follow EXCEPT ![B_id] = @ \cup first[right_symbols[k].id]],
              changed |-> changed \/ ~(first[right_symbols[k].id] \subseteq follow[B_id]),
              beta_is_nullable |-> FALSE],
             LAMBDA r : IF ~nullable[right_symbols[k].id] THEN r
                        ELSE follow_beta(right_symbols, k + 1, B_id, r.follow, r.changed,
                                         nullable, first))

\* compute_follow_sets: the symbol B at position j of a production of A,
\* with rule 3 when beta is empty or nullable.
follow_symbol(A_id, right_symbols, j, follow, changed, nullable, first) ==
    IF right_symbols[j].type = "SYMBOL_NONTERMINAL"
    THEN Let(follow_beta(right_symbols, j + 1, right_symbols[j].id, follow, changed,
                         nullable, first),
             LAMBDA r :
                 IF r.beta_is_nullable
                 THEN [follow |-> [r.follow EXCEPT ![right_symbols[j].id] = @ \cup r.follow[A_id]],
                       changed |-> r.changed
                                   \/ ~(r.follow[A_id] \subseteq r.follow[right_symbols[j].id])]
                 ELSE [follow |-> r.follow, changed |-> r.changed])
    ELSE [follow |-> follow, changed |-> changed]

follow_pass_always_changed(g, follow, nullable, first) == [follow |-> follow, changed |-> TRUE]

\* compute_follow_sets: one pass of while (changed) over the productions.
follow_pass(g, follow, nullable, first) ==
    ForLoop(LAMBDA acc, i :
                ForLoop(LAMBDA a, j : follow_symbol(Production(g, i).left_symbol.id,
                                                    Production(g, i).right_symbols, j,
                                                    a.follow, a.changed, nullable, first),
                        acc, 1, right_count(Production(g, i))),
            [follow |-> follow, changed |-> FALSE], 0, Len(g.productions) - 1)

item_sets_equal(set1, set2) ==
    /\ Len(set1) = Len(set2)
    /\ \A i \in 1..Len(set1) : \E j \in 1..Len(set2) :
          /\ set1[i].production_id = set2[j].production_id
          /\ set1[i].dot_position = set2[j].dot_position
          /\ set1[i].lookahead_set = set2[j].lookahead_set

\* The state id of the first item set of the list equal to the target, or -1.
\* A set of the list that create_lr1_sets has freed (it holds no item, which
\* no live set of the list does) is read after free(): it compares equal when
\* malloc has handed its block out again to the target ("reused"), and
\* unequal when the block still holds the item_count 0 that item_set_free
\* wrote ("stale"); dangling says which.
find_item_set_in_list(list, target_set, dangling) ==
    LET equal(i) == IF list[i] = <<>> THEN dangling = "reused"
                    ELSE item_sets_equal(list[i], target_set)
    IN  IF \E i \in 1..Len(list) : equal(i)
        THEN (CHOOSE i \in 1..Len(list) : equal(i) /\ \A j \in 1..(i - 1) : ~equal(j)) - 1
        ELSE -1

goto_items_dot_unmoved(I, X, g) ==
    LET moves(item) ==
            /\ item.dot_position < right_count(Production(g, item.production_id))
            /\ Production(g, item.production_id).right_symbols[item.dot_position + 1].id = X.id
    IN  SelectSeq(I, moves)

\* goto_set: the items of I whose symbol after the dot has the id of X, the
\* dot moved over it.
goto_items(I, X, g) ==
    LET moves(item) ==
            /\ item.dot_position < right_count(Production(g, item.production_id))
            /\ Production(g, item.production_id).right_symbols[item.dot_position + 1].id = X.id
        J == SelectSeq(I, moves)
    IN  [i \in 1..Len(J) |-> [J[i] EXCEPT !.dot_position = @ + 1]]

goto_set(I, X, g, nullable, first) ==
    Let(goto_items(I, X, g), LAMBDA J : closure(J, g, nullable, first))

(***************************************************************************)
(* parser.c: create_lr1_sets                                               *)
(***************************************************************************)
QUEUE_CAPACITY == 100

\* create_lr1_sets, the body of its loop over all_symbols for the symbol X:
\* a non-empty Goto set that is not in the collection becomes a new state.
\* When the queue is full the new set is freed but stays in the collection.
lr1_symbol(g, current_I, X, collection, q, nullable, first, dangling) ==
    Let(goto_set(current_I, X, g, nullable, first),
        LAMBDA J :
            IF Len(J) > 0 /\ find_item_set_in_list(collection, J, dangling) = -1
            THEN IF Len(q) < QUEUE_CAPACITY
                 THEN [collection |-> Append(collection, J), queue |-> Append(q, Len(collection))]
                 ELSE [collection |-> Append(collection, <<>>), queue |-> q]
            ELSE [collection |-> collection, queue |-> q])

lr1_symbols(g, current_I, all_symbols, collection, q, nullable, first, dangling) ==
    ForLoop(LAMBDA acc, i : lr1_symbol(g, current_I, all_symbols[i], acc.collection, acc.queue,
                                       nullable, first, dangling),
            [collection |-> collection, queue |-> q], 1, Len(all_symbols))

\* The item of production 0 before its first symbol, with T_EOF to follow.
initial_item == [production_id |-> 0, dot_position |-> 0, lookahead_set |-> {T_EOF}]

\* create_lr1_sets up to its loop: nullable, FIRST, I0 and the queue.
CreateLr1Sets ==
    /\ pc.at = "create_lr1_sets"
    /\ \E nullable \in {compute_nullable_set(grammar)} :
       \E first \in {compute_first_sets(grammar, nullable)} :
          /\ nullable_status' = nullable
          /\ firstSetsForNonTerminals' = first
          /\ canonical_collection' = <<closure(<<initial_item>>, grammar, nullable, first)>>
    /\ queue' = <<0>>
    /\ queue_front' = 0
    /\ pc' = [at |-> "create_lr1_sets_loop", i |-> 0]
    /\ UNCHANGED <<grammar, action_table, goto_table, conflicts, freed_set, parseVars, stderr,
                   bigVars, lexVars, setVars, runVars>>

\* One turn of the loop of create_lr1_sets: the state at the front of the
\* queue and its Goto sets over the terminals, then the nonterminals.
CreateLr1SetsLoop ==
    /\ pc.at = "create_lr1_sets_loop"
    /\ queue_front < Len(queue)
    /\ \E dangling \in (IF freed_set = "none" THEN {"stale", "reused"} ELSE {freed_set}) :
       \E r \in {lr1_symbols(grammar, canonical_collection[queue[queue_front + 1] + 1],
                             grammar.terminals \o grammar.non_terminals,
                             canonical_collection, queue,
                             nullable_status, firstSetsForNonTerminals, dangling)} :
          /\ canonical_collection' = r.collection
          /\ queue' = r.queue
          /\ freed_set' = IF \E i \in 1..Len(r.collection) : r.collection[i] = <<>>
                          THEN dangling ELSE "none"
    /\ queue_front' = queue_front + 1
    /\ UNCHANGED <<grammar, nullable_status, firstSetsForNonTerminals, action_table,
                   goto_table, conflicts, parseVars, pc, stderr, bigVars, lexVars, setVars,
                   runVars>>

(***************************************************************************)
(* parser.c: build_parsing_tables                                          *)
(*                                                                         *)
(* While a state is built, acc holds its ACTION row, its GOTO row, the     *)
(* conflict reports and the other messages written so far.                 *)
(***************************************************************************)
ActionEntry(type, target_state_or_production_id) ==
    [type |-> type, target_state_or_production_id |-> target_state_or_production_id]

\* The rows initialize_parsing_tables fills the tables with.
error_row == [terminal_id \in 0..(MAX_TERMINALS - 1) |-> ActionEntry("ACTION_ERROR", -1)]

no_goto_row == [non_terminal_id \in 0..(MAX_NON_TERMINALS - 1) |-> -1]

\* The report "Conflict detected at ACTION[state][terminal]", with the
\* existing entry and the new one as it prints them.
Conflict(state_id, terminal_id, existing, new) ==
    [state |-> state_id, terminal |-> terminal_id, existing |-> existing, new |-> new]

\* What the cell holds after a shift was found for a cell that is not
\* ACTION_ERROR: the shift replaces a reduce, anything else stays.
resolve_shift(existing, new) ==
    IF existing.type = "ACTION_REDUCE" THEN new ELSE existing

\* What the cell holds after a reduce was found for a cell that is not
\* ACTION_ERROR: the existing entry, in both branches.
resolve_reduce(existing, new) == existing

\* Case 1, a terminal after the dot: shift to the state of the Goto set.
table_shift(acc, state_id, terminal_id, target_state_id) ==
    IF acc.row[terminal_id].type # "ACTION_ERROR"
    THEN [acc EXCEPT !.conflicts = Append(@, Conflict(state_id, terminal_id, acc.row[terminal_id],
                                                      ActionEntry("ACTION_SHIFT", target_state_id))),
                     !.row[terminal_id] = resolve_shift(@, ActionEntry("ACTION_SHIFT",
                                                                       target_state_id))]
    ELSE [acc EXCEPT !.row[terminal_id] = ActionEntry("ACTION_SHIFT", target_state_id)]

\* Case 2, the item of S' with the dot at the end and T_EOF to follow:
\* accept is written over whatever the cell holds.
table_accept(acc, state_id) ==
    IF acc.row[T_EOF].type # "ACTION_ERROR"
    THEN [acc EXCEPT !.conflicts = Append(@, Conflict(state_id, T_EOF, acc.row[T_EOF],
                                                      ActionEntry("ACTION_ACCEPT", -1))),
                     !.row[T_EOF] = ActionEntry("ACTION_ACCEPT", -1)]
    ELSE [acc EXCEPT !.row[T_EOF] = ActionEntry("ACTION_ACCEPT", -1)]

\* Case 2, any other item with the dot at the end: reduce on every terminal
\* of its lookahead set, in the order of the terminal ids.
table_reduce(acc, state_id, item) ==
    ForLoop(LAMBDA a, term_id :
                IF term_id \in item.lookahead_set
                THEN IF a.row[term_id].type # "ACTION_ERROR"
                     THEN [a EXCEPT !.conflicts =
                                        Append(@, Conflict(state_id, term_id, a.row[term_id],
                                                ActionEntry("ACTION_REDUCE", item.production_id))),
                                    !.row[term_id] =
                                        resolve_reduce(@, ActionEntry("ACTION_REDUCE",
                                                                      item.production_id))]
                     ELSE [a EXCEPT !.row[term_id] = ActionEntry("ACTION_REDUCE",
                                                                 item.production_id)]
                ELSE a,
            acc, 0, MAX_TERMINALS - 1)

\* The body of the loop over the items of the state.
table_item(g, collection, state_id, item, acc, nullable, first, dangling) ==
    IF item.dot_position < right_count(Production(g, item.production_id))
    THEN IF Production(g, item.production_id).right_symbols[item.dot_position + 1].type
                = "SYMBOL_TERMINAL"
         THEN Let(find_item_set_in_list(collection,
                      goto_set(collection[state_id + 1],
                               Production(g, item.production_id)
                                   .right_symbols[item.dot_position + 1],
                               g, nullable, first), dangling),
                  LAMBDA target_state_id :
                      IF target_state_id = -1
                      THEN [acc EXCEPT !.stderr = Append(@,
                               "Error: GOTO state not found in canonical collection for shift.")]
                      ELSE table_shift(acc, state_id,
                               Production(g, item.production_id)
                                   .right_symbols[item.dot_position + 1].id,
                               target_state_id))
         ELSE acc
    ELSE IF Production(g, item.production_id).left_symbol.id = SymbolIDs.NT_S_PRIME
            /\ T_EOF \in item.lookahead_set
    THEN table_accept(acc, state_id)
    ELSE table_reduce(acc, state_id, item)

\* The body of the loop over the nonterminals of the grammar.
table_goto(g, collection, state_id, NT, acc, nullable, first, dangling) ==
    Let(goto_set(collection[state_id + 1], NT, g, nullable, first),
        LAMBDA next_state :
            IF Len(next_state) > 0
            THEN Let(find_item_set_in_list(collection, next_state, dangling),
                     LAMBDA target_state_id :
                         IF target_state_id = -1
                         THEN [acc EXCEPT !.stderr = Append(@,
                                  "Error: GOTO state for non-terminal not found.")]
                         ELSE [acc EXCEPT !.goto_row[NT.id] = target_state_id])
            ELSE acc)

\* The body of the loop over the states: the items, then the nonterminals.
table_state(g, collection, state_id, acc, nullable, first, dangling) ==
    Let(ForLoop(LAMBDA a, k : table_item(g, collection, state_id, collection[state_id + 1][k],
                                         a, nullable, first, dangling),
                acc, 1, Len(collection[state_id + 1])),
        LAMBDA b : ForLoop(LAMBDA a, j : table_goto(g, collection, state_id, g.non_terminals[j],
                                                    a, nullable, first, dangling),
                           b, 1, Len(g.non_terminals)))

\* build_parsing_tables up to its loop: initialize_parsing_tables.
BuildParsingTables ==
    /\ pc.at = "create_lr1_sets_loop"
    /\ queue_front >= Len(queue)
    /\ action_table' = [i \in 1..Len(canonical_collection) |-> error_row]
    /\ goto_table' = [i \in 1..Len(canonical_collection) |-> no_goto_row]
    /\ pc' = [at |-> "build_parsing_tables", i |-> 0]
    /\ UNCHANGED <<grammar, nullable_status, firstSetsForNonTerminals, canonical_collection,
                   queue, queue_front, conflicts, freed_set, parseVars, stderr, bigVars, lexVars, setVars, runVars>>

\* One turn of the loop of build_parsing_tables: the state I_i.
BuildParsingTablesLoop ==
    /\ pc.at = "build_parsing_tables"
    /\ pc.i < Len(canonical_collection)
    /\ \E r \in {table_state(grammar, canonical_collection, pc.i,
                             [row |-> action_table[pc.i + 1], goto_row |-> goto_table[pc.i + 1],
                              conflicts |-> conflicts, stderr |-> stderr],
                             nullable_status, firstSetsForNonTerminals, freed_set)} :
          /\ action_table' = [action_table EXCEPT ![pc.i + 1] = r.row]
          /\ goto_table' = [goto_table EXCEPT ![pc.i + 1] = r.goto_row]
          /\ conflicts' = r.conflicts
          /\ stderr' = r.stderr
    /\ pc' = [pc EXCEPT !.i = @ + 1]
    /\ UNCHANGED <<grammar, nullable_status, firstSetsForNonTerminals, canonical_collection,
                   queue, queue_front, freed_set, parseVars, bigVars, lexVars, setVars, runVars>>

(***************************************************************************)
(* parser.c: AST nodes, semantic actions and parse()                       *)
(*                                                                         *)
(* An AST node is its type, its children and the name or value it         *)
(* carries; NULL is a node of its own.  children[i] of the code is         *)
(* children[i + 1] here.  A semantic action gives the set of the outcomes  *)
(* it can have.  The actions that main.c names and parser.c does not       *)
(* define follow the specification of the grammar's actions.               *)
(***************************************************************************)
Node(type, children, data) == [type |-> type, children |-> children, data |-> data]

NULL == Node("NULL", <<>>, <<>>)

\* The process was ended by a signal inside a semantic action.
SIGSEGV == Node("SIGSEGV", <<>>, <<>>)

parser_get_node_from_token(token) ==
    CASE token.type = "TOKEN_IDENTIFIER" -> Node("AST_IDENTIFIER", <<>>, token.lexeme)
      [] token.type = "TOKEN_INTEGER" -> Node("AST_NUMBER", <<>>, <<token.int_value>>)
      [] token.type = "TOKEN_STRING" ->
            Node("AST_STRING", <<>>,
                 IF Len(token.lexeme) >= 2 THEN SubSeq(token.lexeme, 2, Len(token.lexeme) - 1)
                 ELSE <<>>)
      [] OTHER -> NULL

\* semantic_action_statement_list_multi reads children[0] and children[2].
\* For a right-hand side of two symbols children[2] lies behind the array
\* that parse() allocated: what is read there is NULL or is no node.
semantic_action_statement_list_multi(children) ==
    IF Len(children) >= 3
    THEN {Node("AST_STATEMENT_LIST",
               <<children[1]>> \o (IF children[3].type = "AST_STATEMENT_LIST"
                                   THEN children[3].children ELSE <<>>),
               <<>>)}
    ELSE {Node("AST_STATEMENT_LIST", <<children[1]>>, <<>>), SIGSEGV}

\* The indexes of children[] that the actions main.c names and parser.c does
\* not define read.
missing_children_read(name) ==
    CASE name \in {"semantic_action_statement_with_semicolon",
                   "semantic_action_output_list_single",
                   "semantic_action_int_value_from_integer",
                   "semantic_action_int_value_from_identifier",
                   "semantic_action_list_element"} -> {0}
      [] name \in {"semantic_action_declaration", "semantic_action_code_block"} -> {1}
      [] name \in {"semantic_action_increment", "semantic_action_decrement",
                   "semantic_action_output_list_multi"} -> {0, 2}
      [] name \in {"semantic_action_loop_statement_single",
                   "semantic_action_loop_statement_block"} -> {1, 3}

\* The indexes of children[] that a semantic action reads.
children_read(name) ==
    CASE name \in {"semantic_action_passthrough", "semantic_action_program",
                   "semantic_action_statement_list_single", "semantic_action_id",
                   "semantic_action_number", "semantic_action_string"} -> {0}
      [] name \in {"semantic_action_paren_expr", "semantic_action_write_statement"} -> {1}
      [] name \in {"semantic_action_statement_list_multi", "semantic_action_assignment",
                   "semantic_action_plus_assign", "semantic_action_minus_assign",
                   "semantic_action_binary_add", "semantic_action_binary_multiply"} -> {0, 2}
      [] name = "semantic_action_loop_statement" -> {1, 3}
      [] OTHER -> missing_children_read(name)

\* The actions of main.c that parser.c does not define.
missing_semantic_action(name, children) ==
    CASE name = "semantic_action_statement_with_semicolon" -> {children[1]}
      [] name = "semantic_action_declaration" -> {Node("AST_DECLARATION", <<children[2]>>, <<>>)}
      [] name = "semantic_action_increment" ->
            {Node("AST_INCREMENT", <<children[1], children[3]>>, <<>>)}
      [] name = "semantic_action_decrement" ->
            {Node("AST_DECREMENT", <<children[1], children[3]>>, <<>>)}
      [] name \in {"semantic_action_loop_statement_single",
                   "semantic_action_loop_statement_block"} ->
            {Node("AST_LOOP_STATEMENT", <<children[2], children[4]>>, <<>>)}
      [] name = "semantic_action_code_block" -> {Node("AST_CODE_BLOCK", <<children[2]>>, <<>>)}
      [] name = "semantic_action_output_list_multi" ->
            {Node("AST_OUTPUT_LIST", children[1].children \o <<children[3]>>, <<>>)}
      [] name = "semantic_action_output_list_single" ->
            {Node("AST_OUTPUT_LIST", <<children[1]>>, <<>>)}
      [] name \in {"semantic_action_int_value_from_integer",
                   "semantic_action_int_value_from_identifier"} ->
            {Node("AST_INT_VALUE", <<children[1]>>, <<>>)}
      [] name = "semantic_action_list_element" ->
            {Node("AST_LIST_ELEMENT", <<children[1]>>, <<>>)}

semantic_action(name, children) ==
    CASE name = "semantic_action_passthrough" -> {children[1]}
      [] name = "semantic_action_program" -> {Node("AST_PROGRAM", <<children[1]>>, <<>>)}
      [] name = "semantic_action_statement_list_single" ->
            {Node("AST_STATEMENT_LIST", <<children[1]>>, <<>>)}
      [] name = "semantic_action_statement_list_multi" ->
            semantic_action_statement_list_multi(children)
      [] name = "semantic_action_assignment" ->
            {Node("AST_ASSIGNMENT", <<children[1], children[3]>>, <<>>)}
      [] name = "semantic_action_write_statement" ->
            {Node("AST_WRITE_STATEMENT", <<children[2]>>, <<>>)}
      [] OTHER -> missing_semantic_action(name, children)

StackEntry(state, symbol, ast_node) == [state |-> state, symbol |-> symbol, ast_node |-> ast_node]

\* parser_init: the stack holds state 0 with no symbol and no node.
parser_init(input) ==
    [stack |-> <<StackEntry(0, NULL, NULL)>>, input |-> input, input_position |-> 0,
     has_error |-> FALSE, error_message |-> <<>>]

parser_current_state(p) == IF Len(p.stack) > 0 THEN p.stack[Len(p.stack)].state ELSE 0

\* The token at the input position, or the static EOF token behind the input.
parser_current_token(p) ==
    IF p.input_position < Len(p.input) THEN p.input[p.input_position + 1]
    ELSE [type |-> "TOKEN_EOF", lexeme |-> <<"$">>, int_value |-> 0,
          location |-> [line |-> 0, column |-> 0]]

parser_advance_input(p) ==
    IF p.input_position < Len(p.input) THEN [p EXCEPT !.input_position = @ + 1] ELSE p

parser_push(p, state, symbol, ast_node) ==
    [p EXCEPT !.stack = Append(@, StackEntry(state, symbol, ast_node))]

\* parser_pop: an attempt to pop more than the stack holds pops nothing and
\* marks the error.
parser_pop(p, count) ==
    IF count > Len(p.stack) THEN [p EXCEPT !.has_error = TRUE]
    ELSE [p EXCEPT !.stack = SubSeq(@, 1, Len(@) - count)]

\* has_error and error_message are set; a message is its text and, for a
\* syntax error, what it names; no message is <<>>.
parser_error(p, message) == [p EXCEPT !.has_error = TRUE, !.error_message = message]

syntax_error_message_of_static_token(current_token) ==
    <<"Syntax error", 0, 0, <<"$">>, "TOKEN_EOF">>

\* case ACTION_ERROR of parse(): the message names the line, the column, the
\* lexeme and the type of the current token.
syntax_error_message(current_token) ==
    <<"Syntax error", current_token.location.line, current_token.location.column,
      current_token.lexeme, current_token.type>>

\* case ACTION_SHIFT of parse().
parse_shift(g, p, current_token, target_state) ==
    IF \E i \in 1..Len(g.terminals) : g.terminals[i].id = TokenType[current_token.type]
    THEN parser_advance_input(
             parser_push(p, target_state, create_terminal(TokenType[current_token.type]),
                         parser_get_node_from_token(current_token)))
    ELSE parser_error(p, <<"Internal error: Terminal symbol not found in grammar.">>)

\* case ACTION_REDUCE of parse(): the nodes of the right-hand side, bottom
\* first; an entry below the stack gives NULL.
child_nodes(p, count) ==
    [i \in 1..count |->
        IF Len(p.stack) - count + i >= 1 THEN p.stack[Len(p.stack) - count + i].ast_node
        ELSE NULL]

\* case ACTION_REDUCE of parse(), after the semantic action gave new_node.
parse_reduce(p, production, new_node, gotos) ==
    Let(parser_pop(p, right_count(production)),
        LAMBDA popped :
            IF gotos[parser_current_state(popped) + 1][production.left_symbol.id] = -1
            THEN parser_error(popped, <<"GOTO table entry not found">>)
            ELSE parser_push(popped,
                             gotos[parser_current_state(popped) + 1][production.left_symbol.id],
                             production.left_symbol, new_node))

(***************************************************************************)
(* parse(): one action per iteration of the driver's loop                  *)
(***************************************************************************)
Tok(type, lexeme, int_value) == [type |-> type, lexeme |-> lexeme, int_value |-> int_value]

Semi == Tok("TOKEN_EOL", <<>>, 0)

EofTok == Tok("TOKEN_EOF", <<>>, 0)

IdX == Tok("TOKEN_IDENTIFIER", <<"x">>, 0)

Int5 == Tok("TOKEN_INTEGER", <<"5">>, 5)

Kw(type) == Tok(type, <<>>, 0)

\* The tokens with the places the lexer found them at, all on one line.
Located(input) ==
    [i \in 1..Len(input) |->
        [type |-> input[i].type, lexeme |-> input[i].lexeme, int_value |-> input[i].int_value,
         location |-> [line |-> 1, column |-> 2 * i - 1]]]

\* Token sequences, as lexer() returns them, of programs of the language.
Sentences ==
    { Located(input) : input \in
    { <<Kw("TOKEN_NUMBER"), IdX, Semi, EofTok>>,
      <<IdX, Kw("TOKEN_ASSIGN"), Int5, Semi, EofTok>>,
      <<IdX, Kw("TOKEN_PLUS_ASSIGN"), Int5, Semi, EofTok>>,
      <<IdX, Kw("TOKEN_MINUS_ASSIGN"), IdX, Semi, EofTok>>,
      <<Kw("TOKEN_WRITE"), IdX, Kw("TOKEN_AND"), Kw("TOKEN_NEWLINE"), Semi, EofTok>>,
      <<Kw("TOKEN_REPEAT"), Int5, Kw("TOKEN_TIMES"), IdX, Kw("TOKEN_PLUS_ASSIGN"), Int5, Semi,
        EofTok>>,
      <<Kw("TOKEN_REPEAT"), IdX, Kw("TOKEN_TIMES"), Kw("TOKEN_OPENB"), IdX,
        Kw("TOKEN_MINUS_ASSIGN"), Int5, Semi, Kw("TOKEN_CLOSEB"), EofTok>>,
      <<Kw("TOKEN_NUMBER"), IdX, Semi, IdX, Kw("TOKEN_ASSIGN"), Int5, Semi, EofTok>> } }

\* Token sequences that are no program.
NonSentences ==
    { Located(input) : input \in
    { <<EofTok>>, <<IdX, Semi, EofTok>>, <<Kw("TOKEN_NUMBER"), IdX, EofTok>>,
      <<Kw("TOKEN_NUMBER"), IdX, Semi>>, <<IdX, EofTok>>, <<IdX, IdX, EofTok>>,
      <<IdX, Kw("TOKEN_NUMBER"), IdX, Semi, EofTok>>,
      <<IdX, Kw("TOKEN_AND"), Int5, EofTok>> } }

ParseInputs == Sentences \cup NonSentences

\* main(): the tables are built, parse() is called with the tokens.
ParseBegin ==
    /\ pc.at = "build_parsing_tables"
    /\ pc.i >= Len(canonical_collection)
    /\ \E input \in ParseInputs : parser' = parser_init(input)
    /\ pc' = [at |-> "parse", i |-> 0]
    /\ UNCHANGED <<lrVars, root_ast, stderr, bigVars, lexVars, setVars, runVars>>

\* One iteration of while (!parser.has_error).
ParseLoop ==
    /\ pc.at = "parse"
    /\ ~parser.has_error
    /\ LET current_state == parser_current_state(parser)
           current_token == parser_current_token(parser)
           action == action_table[current_state + 1][TokenType[current_token.type]]
           production == Production(grammar, action.target_state_or_production_id)
       IN  CASE action.type = "ACTION_SHIFT" ->
                   /\ parser' = parse_shift(grammar, parser, current_token,
                                            action.target_state_or_production_id)
                   /\ pc' = pc
                   /\ UNCHANGED <<root_ast, stderr>>
             [] action.type = "ACTION_REDUCE" ->
                   \E new_node \in semantic_action(production.semantic_action,
                                                   child_nodes(parser, right_count(production))) :
                      IF new_node = SIGSEGV
                      THEN /\ root_ast' = SIGSEGV
                           /\ pc' = [at |-> "done", i |-> 0]
                           /\ UNCHANGED <<parser, stderr>>
                      ELSE /\ parser' = parse_reduce(parser, production, new_node, goto_table)
                           /\ pc' = pc
                           /\ UNCHANGED <<root_ast, stderr>>
             [] action.type = "ACTION_ACCEPT" ->
                   /\ root_ast' = parser.stack[Len(parser.stack)].ast_node
                   /\ stderr' = IF parser.stack[Len(parser.stack)].ast_node = NULL
                                THEN Append(stderr, "Warning: Parser accepted but no root AST node found on stack.")
                                ELSE stderr
                   /\ pc' = [at |-> "done", i |-> 0]
                   /\ UNCHANGED parser
             [] OTHER ->
                   /\ parser' = parser_error(parser, syntax_error_message(current_token))
                   /\ pc' = pc
                   /\ UNCHANGED <<root_ast, stderr>>
    /\ UNCHANGED <<lrVars, bigVars, lexVars, setVars, runVars>>

\* Behind the loop: the error is reported and parse() returns NULL.
ParseFailed ==
    /\ pc.at = "parse"
    /\ parser.has_error
    /\ stderr' = IF parser.error_message # <<>> THEN Append(stderr, "Parse error") ELSE stderr
    /\ root_ast' = NULL
    /\ pc' = [at |-> "done", i |-> 0]
    /\ UNCHANGED <<lrVars, parser, bigVars, lexVars, setVars, runVars>>

(***************************************************************************)
(* main(): what it does with the result of lexer() and of parse()          *)
(***************************************************************************)
EXIT_FAILURE == 1

ErrTok == Tok("TOKEN_ERROR", <<":">>, 0)

\* What lexer() hands to main() after a failure: NULL with no token, or
\* tokens that end with TOKEN_ERROR.
LexerFailures == {<<>>, <<ErrTok>>, <<IdX, ErrTok>>}

\* The messages of the interpreter that begin with "Runtime Error:".
RuntimeErrors ==
    {"Runtime Error: Variable already declared",
     "Runtime Error: Undeclared variable in assignment",
     "Runtime Error: Undeclared variable in increment",
     "Runtime Error: Undeclared variable in decrement",
     "Runtime Error: Loop count cannot be negative",
     "Runtime Error: Undeclared variable used in expression"}

\* main() after lexer(): no tokens, or a last token that is TOKEN_ERROR, and
\* main() returns EXIT_FAILURE before any set is computed.
MainLexerFailed ==
    /\ pc.at = "create_lr1_sets"
    /\ \E input \in LexerFailures : parser' = [input |-> input]
    /\ stderr' = Append(stderr, "Lexical analysis failed or encountered errors. Aborting parsing.")
    /\ exit_status' = EXIT_FAILURE
    /\ pc' = [at |-> "exit", i |-> 0]
    /\ UNCHANGED <<lrVars, root_ast, bigVars, lexVars, setVars, heap, interp, released>>

\* main() after parse() returned NULL: the else branch, the cleanup, return 0.
MainParsingFailed ==
    /\ pc.at = "done"
    /\ root_ast = NULL
    /\ stderr' = Append(stderr, "--- Parsing Failed! ---")
    /\ exit_status' = 0
    /\ pc' = [at |-> "exit", i |-> 0]
    /\ UNCHANGED <<lrVars, parseVars, bigVars, lexVars, setVars, heap, interp, released>>

(***************************************************************************)
(* The grammars and the run of main() from the grammar to parse()'s result *)
(***************************************************************************)
\* L -> L L | IDENTIFIER: a shift and a reduce meet in one cell.
ShiftReduceGrammar ==
    Grammar(<< create_production(Nt("NT_S_PRIME"), <<Nt("NT_OUTPUT_LIST"), Tm("TOKEN_EOF")>>,
                                 "semantic_action_program"),
               create_production(Nt("NT_OUTPUT_LIST"),
                                 <<Nt("NT_OUTPUT_LIST"), Nt("NT_OUTPUT_LIST")>>,
                                 "semantic_action_passthrough"),
               create_production(Nt("NT_OUTPUT_LIST"), <<Tm("TOKEN_IDENTIFIER")>>,
                                 "semantic_action_passthrough") >>)

\* L -> E | V, E -> IDENTIFIER, V -> IDENTIFIER: two reduces meet in one cell.
ReduceReduceGrammar ==
    Grammar(<< create_production(Nt("NT_S_PRIME"), <<Nt("NT_OUTPUT_LIST"), Tm("TOKEN_EOF")>>,
                                 "semantic_action_program"),
               create_production(Nt("NT_OUTPUT_LIST"), <<Nt("NT_LIST_ELEMENT")>>,
                                 "semantic_action_passthrough"),
               create_production(Nt("NT_OUTPUT_LIST"), <<Nt("NT_INT_VALUE")>>,
                                 "semantic_action_passthrough"),
               create_production(Nt("NT_LIST_ELEMENT"), <<Tm("TOKEN_IDENTIFIER")>>,
                                 "semantic_action_passthrough"),
               create_production(Nt("NT_INT_VALUE"), <<Tm("TOKEN_IDENTIFIER")>>,
                                 "semantic_action_passthrough") >>)

\* S' -> L $ and six productions L -> t AND ... AND of eighteen terminals, one
\* for each first terminal t: every prefix of every production is a state of
\* its own, 111 states in all, more than the queue of create_lr1_sets holds.
ManyStatesGrammar ==
    Grammar(<< create_production(Nt("NT_S_PRIME"), <<Nt("NT_OUTPUT_LIST"), Tm("TOKEN_EOF")>>,
                                 "semantic_action_program") >>
            \o [k \in 1..6 |->
                   create_production(Nt("NT_OUTPUT_LIST"),
                                     <<all_terminals_map[k + 1]>> \o [j \in 1..17 |-> Tm("TOKEN_AND")],
                                     "semantic_action_passthrough")])

\* L -> L AND E | E, E -> IDENTIFIER | INTEGER: no two actions meet in a cell.
ListGrammar ==
    Grammar(<< create_production(Nt("NT_S_PRIME"), <<Nt("NT_OUTPUT_LIST"), Tm("TOKEN_EOF")>>,
                                 "semantic_action_program"),
               create_production(Nt("NT_OUTPUT_LIST"),
                                 <<Nt("NT_OUTPUT_LIST"), Tm("TOKEN_AND"), Nt("NT_LIST_ELEMENT")>>,
                                 "semantic_action_passthrough"),
               create_production(Nt("NT_OUTPUT_LIST"), <<Nt("NT_LIST_ELEMENT")>>,
                                 "semantic_action_passthrough"),
               create_production(Nt("NT_LIST_ELEMENT"), <<Tm("TOKEN_IDENTIFIER")>>,
                                 "semantic_action_passthrough"),
               create_production(Nt("NT_LIST_ELEMENT"), <<Tm("TOKEN_INTEGER")>>,
                                 "semantic_action_passthrough") >>)

Grammars ==
    {ShippedGrammar, ShiftReduceGrammar, ReduceReduceGrammar, ManyStatesGrammar, ListGrammar}

InitLr ==
    /\ BigIdle
    /\ LexIdle
    /\ stderr = <<>>
    /\ grammar \in Grammars
    /\ nullable_status = <<>>
    /\ firstSetsForNonTerminals = <<>>
    /\ canonical_collection = <<>>
    /\ queue = <<>>
    /\ queue_front = 0
    /\ action_table = <<>>
    /\ goto_table = <<>>
    /\ conflicts = <<>>
    /\ freed_set = "none"
    /\ parser = [input |-> <<>>]
    /\ root_ast = [type |-> "none"]
    /\ pc = [at |-> "create_lr1_sets", i |-> 0]
    /\ SetIdle
    /\ RunIdle

NextLr ==
    \/ CreateLr1Sets
    \/ CreateLr1SetsLoop
    \/ BuildParsingTables
    \/ BuildParsingTablesLoop
    \/ ParseBegin
    \/ ParseLoop
    \/ ParseFailed
    \/ MainLexerFailed
    \/ MainParsingFailed

\* The most tokens before TOKEN_EOF in the arrays of any tokens.
MaxTokens == 2

\* Token arrays that end with TOKEN_EOF: every array of at most MaxTokens
\* tokens of any types before it, and the longer ones of ParseInputs.
TokenArrays ==
    { Located(input \o <<EofTok>>) :
        input \in UNION {[1..n -> {Kw(type) : type \in DOMAIN TokenType}] : n \in 0..MaxTokens} }
    \cup {input \in ParseInputs : input[Len(input)].type = "TOKEN_EOF"}

\* main(): parse() is called with the tables of the grammar and any token array.
ParseTokenArray ==
    /\ pc.at = "build_parsing_tables"
    /\ pc.i >= Len(canonical_collection)
    /\ \E input \in TokenArrays : parser' = parser_init(input)
    /\ pc' = [at |-> "parse", i |-> 0]
    /\ UNCHANGED <<lrVars, root_ast, stderr, bigVars, lexVars, setVars, runVars>>

InitParse ==
    /\ InitLr
    /\ grammar = ShippedGrammar

NextParse ==
    \/ CreateLr1Sets
    \/ CreateLr1SetsLoop
    \/ BuildParsingTables
    \/ BuildParsingTablesLoop
    \/ ParseTokenArray
    \/ ParseLoop
    \/ ParseFailed

\* parse() runs on: an iteration of its loop that can be taken is taken, and
\* so is the return behind the loop.
SpecParse == InitParse /\ [][NextParse]_vars /\ WF_vars(ParseLoop \/ ParseFailed)

SpecLr == InitLr /\ [][NextLr]_vars

(***************************************************************************)
(* Claims about the BigInt                                                 *)
(***************************************************************************)
(***************************************************************************)
(* The set computations of main(), pass by pass, and closure() on its own  *)
(***************************************************************************)
MaxGrammarSize == 4

\* The productions the small grammars are made of, after S' -> Program EOF:
\* empty right-hand sides, nullable chains and recursion among them.
CandidateProductions ==
    << create_production(Nt("NT_PROGRAM"), <<Nt("NT_STATEMENT_LIST"), Nt("NT_STATEMENT")>>,
                         "semantic_action_passthrough"),
       create_production(Nt("NT_STATEMENT_LIST"), <<>>, "semantic_action_passthrough"),
       create_production(Nt("NT_STATEMENT_LIST"), <<Tm("TOKEN_IDENTIFIER")>>,
                         "semantic_action_passthrough"),
       create_production(Nt("NT_STATEMENT"), <<>>, "semantic_action_passthrough"),
       create_production(Nt("NT_STATEMENT"), <<Tm("TOKEN_WRITE"), Nt("NT_PROGRAM")>>,
                         "semantic_action_passthrough"),
       create_production(Nt("NT_STATEMENT_LIST"), <<Nt("NT_STATEMENT"), Nt("NT_STATEMENT_LIST")>>,
                         "semantic_action_passthrough"),
       create_production(Nt("NT_STATEMENT"), <<Nt("NT_PROGRAM"), Tm("TOKEN_AND")>>,
                         "semantic_action_passthrough") >>

\* The grammars of at most MaxGrammarSize candidate productions, in the
\* order of the list and in the reverse order, and the shipped grammar.
SetGrammars ==
    LET chosen(S) == SelectSeq(CandidateProductions, LAMBDA p : p \in S)
        small == {S \in SUBSET {CandidateProductions[i] : i \in 1..Len(CandidateProductions)} :
                     Cardinality(S) <= MaxGrammarSize}
    IN  {Grammar(<<productions_array[1]>> \o chosen(S)) : S \in small}
        \cup {Grammar(<<productions_array[1]>> \o Reverse(chosen(S))) : S \in small}
        \cup {ShippedGrammar}

\* The loops main() runs, in order: compute_nullable_set; compute_first_sets
\* with its call of compute_nullable_set; compute_follow_sets with its calls
\* of compute_nullable_set and compute_first_sets.
SetLoops ==
    << "nullable", "nullable", "first", "nullable", "nullable", "first", "follow" >>

NoTerminals == [id \in 0..(MAX_NON_TERMINALS - 1) |-> {}]

NotNullable == [id \in 0..(MAX_NON_TERMINALS - 1) |-> FALSE]

\* The code that runs between two loops: the return from the loop that has
\* ended with changed = false, the initialisations of the functions entered,
\* and changed = true before the next loop.
SetsCall ==
    /\ pc.at = "compute_sets"
    /\ ~pass_changed
    /\ pc.i < Len(SetLoops)
    /\ pc' = [pc EXCEPT !.i = @ + 1]
    /\ pass_changed' = TRUE
    /\ nullable_status' = IF SetLoops[pc.i + 1] = "nullable" THEN NotNullable ELSE nullable_status
    /\ firstSetsForNonTerminals' = IF pc.i + 1 \in {2, 5} THEN NoTerminals
                                   ELSE firstSetsForNonTerminals
    /\ followSetsForNonTerminals' =
          IF pc.i + 1 = 4 THEN NoTerminals
          ELSE IF pc.i + 1 = 7
          THEN [followSetsForNonTerminals EXCEPT ![grammar.start_symbol.id] = @ \cup {T_EOF}]
          ELSE followSetsForNonTerminals
    /\ UNCHANGED <<grammar, canonical_collection, queue, queue_front, action_table, goto_table,
                   conflicts, freed_set, parseVars, stderr, bigVars, lexVars, runVars>>

\* One pass of while (changed) of compute_nullable_set.
NullablePass ==
    /\ pc.at = "compute_sets"
    /\ pass_changed
    /\ SetLoops[pc.i] = "nullable"
    /\ \E r \in {nullable_pass(grammar, nullable_status)} :
          /\ nullable_status' = r.nullable
          /\ pass_changed' = r.changed
    /\ UNCHANGED <<grammar, firstSetsForNonTerminals, followSetsForNonTerminals, lrBuilt,
                   parseVars, pc, stderr, bigVars, lexVars, runVars>>

\* One pass of while (changed) of compute_first_sets.
FirstPass ==
    /\ pc.at = "compute_sets"
    /\ pass_changed
    /\ SetLoops[pc.i] = "first"
    /\ \E r \in {first_pass(grammar, firstSetsForNonTerminals, nullable_status)} :
          /\ firstSetsForNonTerminals' = r.first
          /\ pass_changed' = r.changed
    /\ UNCHANGED <<grammar, nullable_status, followSetsForNonTerminals, lrBuilt,
                   parseVars, pc, stderr, bigVars, lexVars, runVars>>

\* One pass of while (changed) of compute_follow_sets.
FollowPass ==
    /\ pc.at = "compute_sets"
    /\ pass_changed
    /\ SetLoops[pc.i] = "follow"
    /\ \E r \in {follow_pass(grammar, followSetsForNonTerminals, nullable_status,
                             firstSetsForNonTerminals)} :
          /\ followSetsForNonTerminals' = r.follow
          /\ pass_changed' = r.changed
    /\ UNCHANGED <<grammar, nullable_status, firstSetsForNonTerminals, lrBuilt,
                   parseVars, pc, stderr, bigVars, lexVars, runVars>>

Item(production_id, dot_position, lookahead_set) ==
    [production_id |-> production_id, dot_position |-> dot_position,
     lookahead_set |-> lookahead_set]

\* The item sets closure() is given: one item of the grammar with one
\* lookahead, and the first item of the grammar together with an item that
\* closure() may reach, which stands in the set before it is asked for.
Kernels(g) ==
    {<<Item(p, d, {t})>> : p \in 0..(Len(g.productions) - 1),
                           d \in 0..1, t \in {T_EOF, TokenType.TOKEN_AND}}
    \cup {<<initial_item, Item(p, 0, {TokenType.TOKEN_AND})>> : p \in 1..(Len(g.productions) - 1)}

\* The sets are computed: an item set J is initialised with its kernel.
ItemSetInit ==
    /\ pc = [at |-> "compute_sets", i |-> Len(SetLoops)]
    /\ ~pass_changed
    /\ \E J \in {K \in Kernels(grammar) :
                    \A i \in 1..Len(K) : K[i].dot_position <= right_count(Production(grammar, K[i].production_id))} :
          canonical_collection' = <<J>>
    /\ pc' = [at |-> "closure", i |-> 0]
    /\ UNCHANGED <<grammar, nullable_status, firstSetsForNonTerminals, queue, queue_front,
                   action_table, goto_table, conflicts, freed_set, parseVars, stderr, bigVars, lexVars,
                   setVars, runVars>>

\* closure(J, grammar, nullable): J is closed in place.
Closure ==
    /\ pc.at = "closure"
    /\ canonical_collection' = <<closure(canonical_collection[1], grammar, nullable_status,
                                         firstSetsForNonTerminals)>>
    /\ pc' = [at |-> "closed", i |-> 0]
    /\ UNCHANGED <<grammar, nullable_status, firstSetsForNonTerminals, queue, queue_front,
                   action_table, goto_table, conflicts, freed_set, parseVars, stderr, bigVars, lexVars,
                   setVars, runVars>>

InitSets ==
    /\ BigIdle
    /\ LexIdle
    /\ stderr = <<>>
    /\ grammar \in SetGrammars
    /\ nullable_status = NotNullable
    /\ firstSetsForNonTerminals = NoTerminals
    /\ followSetsForNonTerminals = NoTerminals
    /\ pass_changed = FALSE
    /\ canonical_collection = <<>>
    /\ queue = <<>>
    /\ queue_front = 0
    /\ action_table = <<>>
    /\ goto_table = <<>>
    /\ conflicts = <<>>
    /\ freed_set = "none"
    /\ parser = [input |-> <<>>]
    /\ root_ast = [type |-> "none"]
    /\ pc = [at |-> "compute_sets", i |-> 0]
    /\ RunIdle

NextSets ==
    \/ SetsCall
    \/ NullablePass
    \/ FirstPass
    \/ FollowPass
    \/ ItemSetInit
    \/ Closure

SpecSets == InitSets /\ [][NextSets]_vars

\* main() runs on: a step that can be taken is taken.
SpecSetsFair == SpecSets /\ WF_vars(NextSets)

(***************************************************************************)
(* parser.c: the AST nodes on the heap and the semantic actions            *)
(*                                                                         *)
(* A node is named by its address, its place in heap; address 0 is the     *)
(* null pointer.  data holds the node pointers of the union member of the  *)
(* node's type, children the array children[].                             *)
(***************************************************************************)
ASTNode(type, children, data) == [type |-> type, children |-> children, data |-> data]

\* malloc of a node and the assignments of its fields: the heap after, and
\* the address of the node.
NewNode(h, node) == [heap |-> Append(h, node), node |-> Len(h) + 1]

create_binary_op_node(h, left, right) ==
    NewNode(h, ASTNode("AST_BINARY_OP", <<left, right>>, <<left, right>>))

create_assignment_node(h, target, value) ==
    NewNode(h, ASTNode("AST_ASSIGNMENT", <<target, value>>, <<target, value>>))

create_write_statement_node(h, expression) ==
    NewNode(h, ASTNode("AST_WRITE_STATEMENT", <<expression>>, <<expression>>))

create_loop_statement_node(h, count, body) ==
    NewNode(h, ASTNode("AST_LOOP_STATEMENT", <<count, body>>, <<count, body>>))

create_statement_list_node(h, statements) ==
    NewNode(h, ASTNode("AST_STATEMENT_LIST", statements, statements))

create_program_node(h, statement_list) ==
    NewNode(h, ASTNode("AST_PROGRAM", <<statement_list>>, <<statement_list>>))

\* parser_get_node_from_token: a leaf for an identifier, a number or a
\* string, the null pointer for any other terminal.
leaf_from_token(h, type) ==
    IF type = "IDENTIFIER" THEN NewNode(h, ASTNode("AST_IDENTIFIER", <<>>, <<>>))
    ELSE IF type = "INTEGER" THEN NewNode(h, ASTNode("AST_NUMBER", <<>>, <<>>))
    ELSE IF type = "STRING" THEN NewNode(h, ASTNode("AST_STRING", <<>>, <<>>))
    ELSE [heap |-> h, node |-> 0]

\* semantic_action_statement_list_multi: the statements of the rest move to
\* a new array behind the first statement, and the rest's node keeps none.
statement_list_multi(h, first_stmt, rest_stmts_list) ==
    IF rest_stmts_list # 0 /\ h[rest_stmts_list].type = "AST_STATEMENT_LIST"
       /\ h[rest_stmts_list].data # <<>>
    THEN create_statement_list_node(
             [h EXCEPT ![rest_stmts_list] = ASTNode("AST_STATEMENT_LIST", <<>>, <<>>)],
             <<first_stmt>> \o h[rest_stmts_list].data)
    ELSE create_statement_list_node(h, <<first_stmt>>)

\* semantic_action_plus_assign and semantic_action_minus_assign, which differ
\* in the operator of the node only.
semantic_action_plus_assign(h, children) ==
    Let(create_binary_op_node(h, children[1], children[3]),
        LAMBDA binary_op : create_assignment_node(binary_op.heap, children[1], binary_op.node))

\* The semantic actions of parser.c by name: the heap after the action and
\* the node it returns.
ast_semantic_action(h, name, children) ==
    CASE name \in {"semantic_action_passthrough", "semantic_action_id",
                   "semantic_action_number", "semantic_action_string"}
             -> [heap |-> h, node |-> children[1]]
      [] name = "semantic_action_paren_expr" -> [heap |-> h, node |-> children[2]]
      [] name = "semantic_action_program" -> create_program_node(h, children[1])
      [] name = "semantic_action_statement_list_single"
             -> create_statement_list_node(h, <<children[1]>>)
      [] name = "semantic_action_statement_list_multi"
             -> statement_list_multi(h, children[1], children[3])
      [] name = "semantic_action_assignment" -> create_assignment_node(h, children[1], children[3])
      [] name \in {"semantic_action_plus_assign", "semantic_action_minus_assign"}
             -> semantic_action_plus_assign(h, children)
      [] name = "semantic_action_write_statement" -> create_write_statement_node(h, children[2])
      [] name = "semantic_action_loop_statement"
             -> create_loop_statement_node(h, children[2], children[4])
      [] name \in {"semantic_action_binary_add", "semantic_action_binary_multiply"}
             -> create_binary_op_node(h, children[1], children[3])

AstProduction(left, right, action) == [left |-> left, right |-> right, action |-> action]

\* The productions the comments of the semantic actions name; the code
\* block, which has no action of its own, hands on its statement list.
AstProductions ==
    { AstProduction("Program", <<"StatementList">>, "semantic_action_program"),
      AstProduction("StatementList", <<"Statement">>, "semantic_action_statement_list_single"),
      AstProduction("StatementList", <<"Statement", "SEMICOLON", "StatementList">>,
                    "semantic_action_statement_list_multi"),
      AstProduction("Statement", <<"Assignment">>, "semantic_action_passthrough"),
      AstProduction("Statement", <<"WriteStatement">>, "semantic_action_passthrough"),
      AstProduction("Statement", <<"LoopStatement">>, "semantic_action_passthrough"),
      AstProduction("Assignment", <<"IDENTIFIER", "ASSIGN", "E">>, "semantic_action_assignment"),
      AstProduction("Assignment", <<"IDENTIFIER", "PLUS_ASSIGN", "E">>,
                    "semantic_action_plus_assign"),
      AstProduction("Assignment", <<"IDENTIFIER", "MINUS_ASSIGN", "E">>,
                    "semantic_action_minus_assign"),
      AstProduction("WriteStatement", <<"WRITE", "E">>, "semantic_action_write_statement"),
      AstProduction("LoopStatement", <<"REPEAT", "E", "TIMES", "CodeBlock">>,
                    "semantic_action_loop_statement"),
      AstProduction("CodeBlock", <<"LBRACE", "StatementList", "RBRACE">>,
                    "semantic_action_paren_expr"),
      AstProduction("E", <<"E", "PLUS", "T">>, "semantic_action_binary_add"),
      AstProduction("E", <<"T">>, "semantic_action_passthrough"),
      AstProduction("T", <<"T", "STAR", "F">>, "semantic_action_binary_multiply"),
      AstProduction("T", <<"F">>, "semantic_action_passthrough"),
      AstProduction("F", <<"LPAREN", "E", "RPAREN">>, "semantic_action_paren_expr"),
      AstProduction("F", <<"IDENTIFIER">>, "semantic_action_id"),
      AstProduction("F", <<"INTEGER">>, "semantic_action_number"),
      AstProduction("F", <<"STRING">>, "semantic_action_string") }

\* The programs that are parsed, as token types.
AstInputs ==
    { <<"IDENTIFIER", "ASSIGN", "INTEGER">>,
      <<"IDENTIFIER", "PLUS_ASSIGN", "INTEGER">>,
      <<"IDENTIFIER", "MINUS_ASSIGN", "IDENTIFIER">>,
      <<"WRITE", "IDENTIFIER", "PLUS", "INTEGER", "STAR", "IDENTIFIER">>,
      <<"REPEAT", "INTEGER", "TIMES", "LBRACE", "IDENTIFIER", "ASSIGN", "INTEGER", "RBRACE">>,
      <<"IDENTIFIER", "ASSIGN", "LPAREN", "INTEGER", "RPAREN", "SEMICOLON", "WRITE", "STRING">> }

\* parse(), ACTION_SHIFT: the token's node is pushed with the token.
AstShift ==
    /\ pc.at = "parse_ast"
    /\ parser.input_position < Len(parser.input)
    /\ \E r \in {leaf_from_token(heap, parser.input[parser.input_position + 1])} :
          /\ heap' = r.heap
          /\ parser' = [parser EXCEPT
                            !.input_position = @ + 1,
                            !.stack = Append(@, [symbol |-> parser.input[parser.input_position + 1],
                                                 ast_node |-> r.node])]
    /\ UNCHANGED <<lrVars, root_ast, pc, stderr, bigVars, lexVars, setVars, interp, exit_status, released>>

\* parse(), ACTION_REDUCE: the nodes of the right-hand side are popped, the
\* semantic action makes the node that is pushed with the left-hand side.
AstReduce ==
    /\ pc.at = "parse_ast"
    /\ \E p \in AstProductions :
          /\ Len(parser.stack) >= Len(p.right)
          /\ \A i \in 1..Len(p.right) :
                parser.stack[Len(parser.stack) - Len(p.right) + i].symbol = p.right[i]
          /\ \E r \in {ast_semantic_action(
                           heap, p.action,
                           [i \in 1..Len(p.right) |->
                               parser.stack[Len(parser.stack) - Len(p.right) + i].ast_node])} :
                /\ heap' = r.heap
                /\ parser' = [parser EXCEPT
                                  !.stack = Append(SubSeq(@, 1, Len(@) - Len(p.right)),
                                                   [symbol |-> p.left, ast_node |-> r.node])]
    /\ UNCHANGED <<lrVars, root_ast, pc, stderr, bigVars, lexVars, setVars, interp, exit_status, released>>

\* parse(), ACTION_ACCEPT: the node on top of the stack is returned.
AstAccept ==
    /\ pc.at = "parse_ast"
    /\ parser.input_position = Len(parser.input)
    /\ Len(parser.stack) = 1
    /\ parser.stack[1].symbol = "Program"
    /\ root_ast' = parser.stack[1].ast_node
    /\ pc' = [at |-> "parsed_ast", i |-> 0]
    /\ UNCHANGED <<lrVars, parser, stderr, bigVars, lexVars, setVars, runVars>>

\* What free_ast_node does to the heap, one record for a call of free() and
\* one for a read: a node is named by its address, the array children[] of a
\* node and the text of a leaf by the address of their node.
Free(kind, address) == [op |-> "free", object |-> <<kind, address>>]
Read(kind, address) == [op |-> "read", object |-> <<kind, address>>]

\* free_ast_node: the frees and reads of the call, in the order the code
\* makes them when every read of children[] gives what was stored there.
\* The statements array of a statement list or a code block is the array
\* children[] of the node (create_statement_list_node, create_code_block_node).
RECURSIVE free_ast_node(_, _)
free_ast_node(h, node) ==
    IF node = 0 THEN <<>>
    ELSE LET type == h[node].type
             children == h[node].children
             statements == h[node].data
             data == IF type \in {"AST_IDENTIFIER", "AST_STRING"}
                     THEN <<Free("text", node)>>
                     ELSE IF /\ type \in {"AST_STATEMENT_LIST", "AST_CODE_BLOCK"}
                             /\ statements # <<>>
                             /\ children = statements
                     THEN <<Free("children", node)>>
                     ELSE <<>>
             child(i) == <<Read("children", node)>> \o free_ast_node(h, children[i])
         IN  <<Read("node", node)>>
             \o data
             \o (IF children # <<>>
                 THEN ForLoop(LAMBDA log, i : log \o child(i), <<>>, 1, Len(children))
                      \o <<Free("children", node)>>
                 ELSE <<>>)
             \o <<Free("node", node)>>

\* The log's entry is a use of an object that an earlier entry freed.
UseAfterFree(log, i) == \E j \in 1..(i - 1) : log[j] = Free(log[i].object[1], log[i].object[2])

\* main(): free_ast_node(root_ast) after the program ran.  A use of a freed
\* object is undefined: the process runs on with what the object held, or it
\* is stopped at that use.
FreeAstNode ==
    /\ pc.at = "parsed_ast"
    /\ root_ast # 0
    /\ \E log \in {free_ast_node(heap, root_ast)} :
          \E n \in {Len(log)} \cup {i \in 1..Len(log) : /\ UseAfterFree(log, i)
                                                       /\ \A j \in 1..(i - 1) : ~UseAfterFree(log, j)} :
             released' = SubSeq(log, 1, n)
    /\ pc' = [at |-> "freed_ast", i |-> 0]
    /\ UNCHANGED <<lrVars, parseVars, stderr, bigVars, lexVars, setVars, heap, interp, exit_status>>

InitAst ==
    /\ BigIdle
    /\ LexIdle
    /\ stderr = <<>>
    /\ grammar = <<>>
    /\ nullable_status = <<>>
    /\ firstSetsForNonTerminals = <<>>
    /\ canonical_collection = <<>>
    /\ queue = <<>>
    /\ queue_front = 0
    /\ action_table = <<>>
    /\ goto_table = <<>>
    /\ conflicts = <<>>
    /\ freed_set = "none"
    /\ SetIdle
    /\ \E input \in AstInputs : parser = [input |-> input, input_position |-> 0, stack |-> <<>>]
    /\ root_ast = 0
    /\ pc = [at |-> "parse_ast", i |-> 0]
    /\ RunIdle

NextAst ==
    \/ AstShift
    \/ AstReduce
    \/ AstAccept
    \/ FreeAstNode

SpecAst == InitAst /\ [][NextAst]_vars

(***************************************************************************)
(* interpreter.c                                                           *)
(*                                                                         *)
(* The AST has the shape the interpreter reads: num_children and           *)
(* children[], data.identifier.name, data.integer, data.string_value and   *)
(* data.loop.  interp holds global_runtime_sym_table, what the write       *)
(* statements have printed to stdout, and frames: the calls of             *)
(* interpret_statement_list and interpret_loop_statement in progress, with *)
(* their locals, the innermost last.                                       *)
(***************************************************************************)
MaxProgramLen == 3

MaxLoopCount == 2

Identifier(name) == Node("AST_IDENTIFIER", <<>>, name)

IntegerLiteral(val) ==
    Node("AST_INTEGER_LITERAL", <<>>,
         big_int_from_long_long([o \in {"integer"} |-> ZeroBigInt], "integer", val)["integer"])

IntValue(child) == Node("AST_INT_VALUE", <<child>>, <<>>)

StringLiteral(string_value) == Node("AST_STRING_LITERAL", <<>>, string_value)

Declaration(name) == Node("AST_DECLARATION", <<Identifier(name)>>, <<>>)

Assignment(name, value) == Node("AST_ASSIGNMENT", <<Identifier(name), IntValue(value)>>, <<>>)

Increment(name, value) == Node("AST_INCREMENT", <<Identifier(name), IntValue(value)>>, <<>>)

Decrement(name, value) == Node("AST_DECREMENT", <<Identifier(name), IntValue(value)>>, <<>>)

WriteStatement(element) ==
    Node("AST_WRITE_STATEMENT",
         <<Node("AST_OUTPUT_LIST", <<Node("AST_LIST_ELEMENT", <<element>>, <<>>)>>, <<>>)>>, <<>>)

StatementList(statements) == Node("AST_STATEMENT_LIST", statements, <<>>)

CodeBlock(statements) == Node("AST_CODE_BLOCK", <<StatementList(statements)>>, <<>>)

LoopStatement(count_expr, body) ==
    Node("AST_LOOP_STATEMENT", <<>>, [count_expr |-> IntValue(count_expr), body |-> body])

ProgramNode(statements) == Node("AST_PROGRAM", <<StatementList(statements)>>, <<>>)

\* The index of the first entry with this name, 0 when lookup_runtime_symbol
\* returns false.
lookup_runtime_symbol(table, name) ==
    IF \E i \in 1..Len(table) : table[i].name = name
    THEN CHOOSE i \in 1..Len(table) :
             table[i].name = name /\ \A j \in 1..(i - 1) : table[j].name # name
    ELSE 0

add_or_update_runtime_symbol(table, name, value) ==
    Let(lookup_runtime_symbol(table, name),
        LAMBDA i : IF i # 0 THEN [table EXCEPT ![i].value = value]
                   ELSE Append(table, [name |-> name, value |-> value]))

\* evaluate_big_int_value: *result after the call and what it wrote to stderr.
evaluate_big_int_value(table, node) ==
    IF node.children[1].type = "AST_INTEGER_LITERAL"
    THEN [result |-> node.children[1].data, err |-> <<>>]
    ELSE Let(lookup_runtime_symbol(table, node.children[1].data),
             LAMBDA i :
                 IF i # 0 THEN [result |-> table[i].value, err |-> <<>>]
                 ELSE [result |-> ZeroBigInt,
                       err |-> <<"Runtime Error: Undeclared variable used in expression">>])

\* The interpret functions: the table after the call, what was printed to
\* stdout and what was written to stderr.
interpret_declaration(table, node) ==
    IF lookup_runtime_symbol(table, node.children[1].data) # 0
    THEN [table |-> table, out |-> <<>>, err |-> <<"Runtime Error: Variable already declared">>]
    ELSE [table |-> add_or_update_runtime_symbol(table, node.children[1].data, ZeroBigInt),
          out |-> <<>>, err |-> <<>>]

interpret_assignment_without_lookup(table, node) ==
    Let(evaluate_big_int_value(table, node.children[2]),
        LAMBDA value_to_assign :
            [table |-> add_or_update_runtime_symbol(table, node.children[1].data,
                                                    value_to_assign.result),
             out |-> <<>>, err |-> value_to_assign.err])

interpret_assignment(table, node) ==
    Let(evaluate_big_int_value(table, node.children[2]),
        LAMBDA value_to_assign :
            IF lookup_runtime_symbol(table, node.children[1].data) # 0
            THEN [table |-> add_or_update_runtime_symbol(table, node.children[1].data,
                                                         value_to_assign.result),
                  out |-> <<>>, err |-> value_to_assign.err]
            ELSE [table |-> table, out |-> <<>>,
                  err |-> value_to_assign.err
                          \o <<"Runtime Error: Undeclared variable in assignment">>])

\* The locals of interpret_increment and interpret_decrement; new_value is
\* not initialised before big_int_add or big_int_sub writes it.
StepLocals(current_value, step_val, new_value) ==
    [o \in {"current_value", "step_val", "new_value", "b_negated"} |->
        IF o = "current_value" THEN current_value
        ELSE IF o = "step_val" THEN step_val
        ELSE new_value]

interpret_increment(table, node, uninitialised) ==
    Let(evaluate_big_int_value(table, node.children[2]),
        LAMBDA increment_val :
            Let(lookup_runtime_symbol(table, node.children[1].data),
                LAMBDA i :
                    IF i # 0
                    THEN [table |-> add_or_update_runtime_symbol(
                                        table, node.children[1].data,
                                        big_int_add(StepLocals(table[i].value, increment_val.result,
                                                               uninitialised),
                                                    "new_value", "current_value", "step_val")
                                            ["new_value"]),
                          out |-> <<>>, err |-> increment_val.err]
                    ELSE [table |-> table, out |-> <<>>,
                          err |-> increment_val.err
                                  \o <<"Runtime Error: Undeclared variable in increment">>]))

interpret_decrement(table, node, uninitialised) ==
    Let(evaluate_big_int_value(table, node.children[2]),
        LAMBDA decrement_val :
            Let(lookup_runtime_symbol(table, node.children[1].data),
                LAMBDA i :
                    IF i # 0
                    THEN [table |-> add_or_update_runtime_symbol(
                                        table, node.children[1].data,
                                        big_int_sub(StepLocals(table[i].value, decrement_val.result,
                                                               uninitialised),
                                                    "new_value", "current_value", "step_val")
                                            ["new_value"]),
                          out |-> <<>>, err |-> decrement_val.err]
                    ELSE [table |-> table, out |-> <<>>,
                          err |-> decrement_val.err
                                  \o <<"Runtime Error: Undeclared variable in decrement">>]))

\* interpret_write_statement, one element of the output list.
write_element(table, element_content) ==
    IF element_content.type = "AST_INT_VALUE"
    THEN Let(evaluate_big_int_value(table, element_content),
             LAMBDA value_to_print :
                 [table |-> table,
                  out |-> <<big_int_to_string([o \in {"value_to_print"} |-> value_to_print.result],
                                              "value_to_print")>>,
                  err |-> value_to_print.err])
    ELSE IF element_content.type = "AST_STRING_LITERAL"
    THEN [table |-> table, out |-> <<element_content.data>>, err |-> <<>>]
    ELSE [table |-> table, out |-> <<<<"\n">>>>, err |-> <<>>]

interpret_write_statement(table, node) ==
    ForLoop(LAMBDA acc, i :
                Let(write_element(table, node.children[1].children[i].children[1]),
                    LAMBDA r : [table |-> table, out |-> acc.out \o r.out, err |-> acc.err \o r.err]),
            [table |-> table, out |-> <<>>, err |-> <<>>], 1, Len(node.children[1].children))

\* interpret_loop_statement up to its while: the locals loop_count and
\* current_iteration when the loop is entered, and what went to stderr.
loop_entry(table, node) ==
    Let(evaluate_big_int_value(table, node.data.count_expr),
        LAMBDA loop_count :
            IF loop_count.result.sign = -1
            THEN [entered |-> FALSE,
                  err |-> loop_count.err \o <<"Runtime Error: Loop count cannot be negative">>]
            ELSE IF abs_compare_loop(loop_count.result, ZeroBigInt, NUM_LIMBS - 1) = 0
            THEN [entered |-> FALSE, err |-> loop_count.err]
            ELSE [entered |-> TRUE, err |-> loop_count.err,
                  frame |-> [kind |-> "loop", body |-> node.data.body,
                             loop_count |-> loop_count.result,
                             current_iteration |-> ZeroBigInt]])

loop_condition_inclusive(current_iteration, loop_count) ==
    abs_compare_loop(current_iteration, loop_count, NUM_LIMBS - 1) <= 0

\* The condition of the while of interpret_loop_statement.
loop_condition(current_iteration, loop_count) ==
    big_int_abs_compare([o \in {"current_iteration", "loop_count"} |->
                            IF o = "loop_count" THEN loop_count ELSE current_iteration],
                        "current_iteration", "loop_count") < 0

\* big_int_add(&current_iteration, &current_iteration, &one).
next_iteration(current_iteration) ==
    big_int_add(big_int_from_long_long(
                    [o \in {"current_iteration", "one"} |-> current_iteration], "one", 1),
                "current_iteration", "current_iteration", "one")["current_iteration"]

\* The statements the programs are made of: x is the variable they work
\* on, y the one they read.  A loop body writes "a" once.
LoopBodies ==
    { WriteStatement(StringLiteral(<<"a">>)),
      CodeBlock(<<WriteStatement(StringLiteral(<<"a">>)),
                  Assignment("x", IntegerLiteral(0))>>),
      CodeBlock(<<Increment("x", IntegerLiteral(1)),
                  WriteStatement(StringLiteral(<<"a">>))>>) }

Statements ==
    {Declaration("x"), Declaration("y"), Assignment("x", Identifier("y")),
     Increment("x", IntegerLiteral(1)), Decrement("x", IntegerLiteral(1)),
     WriteStatement(IntValue(Identifier("x"))), WriteStatement(StringLiteral(<<"b">>))}
    \cup {Assignment("x", IntegerLiteral(val)) : val \in -1..MaxLoopCount}
    \cup {LoopStatement(Identifier("x"), body) : body \in LoopBodies}
    \cup {LoopStatement(IntegerLiteral(MaxLoopCount), WriteStatement(StringLiteral(<<"a">>)))}

Programs == {ProgramNode(statements) : statements \in SeqsUpTo(Statements, MaxProgramLen)}

\* What an uninitialised BigInt local may hold.
Uninitialised == {ZeroBigInt, [limbs |-> [i \in 1..NUM_LIMBS |-> LimbBase - 1], sign |-> -1]}

\* The statement list that runs, and the statement interpret_statement is
\* called with next.
InStatementList ==
    /\ pc.at = "interpret"
    /\ interp.frames # <<>>
    /\ interp.frames[Len(interp.frames)].kind = "list"
    /\ interp.frames[Len(interp.frames)].i <= Len(interp.frames[Len(interp.frames)].statements)

CurrentStatement ==
    interp.frames[Len(interp.frames)].statements[interp.frames[Len(interp.frames)].i]

\* interpret_statement has returned: the table, stdout and stderr as the
\* statement left them, and the for of interpret_statement_list one on.
StatementDone(r) ==
    /\ interp' = [interp EXCEPT !.global_runtime_sym_table = r.table,
                                !.stdout = @ \o r.out,
                                !.frames[Len(interp.frames)].i = @ + 1]
    /\ stderr' = stderr \o r.err
    /\ UNCHANGED <<lrVars, parseVars, pc, bigVars, lexVars, setVars, heap, exit_status, released>>

\* interpret_program up to the first statement.
InterpretProgram ==
    /\ pc.at = "interpret_program"
    /\ interp' = [global_runtime_sym_table |-> <<>>, stdout |-> <<>>,
                  frames |-> <<[kind |-> "list", statements |-> root_ast.children[1].children,
                                i |-> 1]>>]
    /\ pc' = [at |-> "interpret", i |-> 0]
    /\ UNCHANGED <<lrVars, parseVars, stderr, bigVars, lexVars, setVars, heap, exit_status, released>>

InterpretDeclaration ==
    /\ InStatementList
    /\ CurrentStatement.type = "AST_DECLARATION"
    /\ StatementDone(interpret_declaration(interp.global_runtime_sym_table, CurrentStatement))

InterpretAssignment ==
    /\ InStatementList
    /\ CurrentStatement.type = "AST_ASSIGNMENT"
    /\ StatementDone(interpret_assignment(interp.global_runtime_sym_table, CurrentStatement))

InterpretIncrement ==
    /\ InStatementList
    /\ CurrentStatement.type = "AST_INCREMENT"
    /\ \E uninitialised \in Uninitialised :
          StatementDone(interpret_increment(interp.global_runtime_sym_table, CurrentStatement,
                                            uninitialised))

InterpretDecrement ==
    /\ InStatementList
    /\ CurrentStatement.type = "AST_DECREMENT"
    /\ \E uninitialised \in Uninitialised :
          StatementDone(interpret_decrement(interp.global_runtime_sym_table, CurrentStatement,
                                            uninitialised))

InterpretWriteStatement ==
    /\ InStatementList
    /\ CurrentStatement.type = "AST_WRITE_STATEMENT"
    /\ StatementDone(interpret_write_statement(interp.global_runtime_sym_table, CurrentStatement))

\* interpret_loop_statement up to its while, or to its return when the count
\* is negative or zero.
InterpretLoopStatement ==
    /\ InStatementList
    /\ CurrentStatement.type = "AST_LOOP_STATEMENT"
    /\ \E r \in {loop_entry(interp.global_runtime_sym_table, CurrentStatement)} :
          /\ interp' = [interp EXCEPT
                            !.frames = IF r.entered
                                       THEN Append([@ EXCEPT ![Len(@)].i = @ + 1], r.frame)
                                       ELSE [@ EXCEPT ![Len(@)].i = @ + 1]]
          /\ stderr' = stderr \o r.err
    /\ UNCHANGED <<lrVars, parseVars, pc, bigVars, lexVars, setVars, heap, exit_status, released>>

\* The while of interpret_loop_statement: the body is entered, or the loop
\* has finished and interpret_loop_statement returns.
LoopIteration ==
    /\ pc.at = "interpret"
    /\ interp.frames # <<>>
    /\ interp.frames[Len(interp.frames)].kind = "loop"
    /\ LET frame == interp.frames[Len(interp.frames)]
       IN  interp' = [interp EXCEPT
                          !.frames =
                              IF loop_condition(frame.current_iteration, frame.loop_count)
                              THEN Append(@, [kind |-> "list",
                                              statements |->
                                                  IF frame.body.type = "AST_CODE_BLOCK"
                                                  THEN frame.body.children[1].children
                                                  ELSE <<frame.body>>,
                                              i |-> 1])
                              ELSE SubSeq(@, 1, Len(@) - 1)]
    /\ UNCHANGED <<lrVars, parseVars, pc, stderr, bigVars, lexVars, setVars, heap, exit_status, released>>

\* interpret_statement_list has run its last statement and returns; in a
\* loop the body is over and current_iteration is incremented.
StatementListReturn ==
    /\ pc.at = "interpret"
    /\ interp.frames # <<>>
    /\ interp.frames[Len(interp.frames)].kind = "list"
    /\ interp.frames[Len(interp.frames)].i > Len(interp.frames[Len(interp.frames)].statements)
    /\ interp' = [interp EXCEPT
                      !.frames =
                          IF Len(@) > 1
                          THEN [SubSeq(@, 1, Len(@) - 1) EXCEPT
                                    ![Len(@) - 1].current_iteration = next_iteration(@)]
                          ELSE <<>>]
    /\ UNCHANGED <<lrVars, parseVars, pc, stderr, bigVars, lexVars, setVars, heap, exit_status, released>>

\* interpret_program has returned: main() frees what it holds and returns 0.
MainInterpreted ==
    /\ pc.at = "interpret"
    /\ interp.frames = <<>>
    /\ exit_status' = 0
    /\ pc' = [at |-> "exit", i |-> 0]
    /\ UNCHANGED <<lrVars, parseVars, stderr, bigVars, lexVars, setVars, heap, interp, released>>

InitInterp ==
    /\ BigIdle
    /\ LexIdle
    /\ stderr = <<>>
    /\ grammar = [productions |-> <<>>]
    /\ nullable_status = <<>>
    /\ firstSetsForNonTerminals = <<>>
    /\ canonical_collection = <<>>
    /\ queue = <<>>
    /\ queue_front = 0
    /\ action_table = <<>>
    /\ goto_table = <<>>
    /\ conflicts = <<>>
    /\ freed_set = "none"
    /\ parser = [input |-> <<>>]
    /\ root_ast \in Programs
    /\ pc = [at |-> "interpret_program", i |-> 0]
    /\ SetIdle
    /\ RunIdle

NextInterp ==
    \/ InterpretProgram
    \/ InterpretDeclaration
    \/ InterpretAssignment
    \/ InterpretIncrement
    \/ InterpretDecrement
    \/ InterpretWriteStatement
    \/ InterpretLoopStatement
    \/ LoopIteration
    \/ StatementListReturn
    \/ MainInterpreted

SpecInterp == InitInterp /\ [][NextInterp]_vars

\* An integer literal of half the capacity of a BigInt.
HalfCapacity ==
    Node("AST_INTEGER_LITERAL", <<>>,
         [limbs |-> [i \in 1..NUM_LIMBS |-> IF i = NUM_LIMBS THEN LimbBase \div 2 ELSE 0],
          sign |-> 1])

\* Programs on two declared variables, whose values grow to the capacity of
\* a BigInt and beyond.
LargeValuePrograms ==
    {ProgramNode(<<Declaration("x"), Declaration("y")>> \o statements) :
        statements \in SeqsUpTo({Assignment("x", HalfCapacity),
                                 Assignment("y", Identifier("x")),
                                 Increment("x", Identifier("x")),
                                 Increment("y", IntegerLiteral(1)),
                                 Decrement("x", Identifier("y")),
                                 WriteStatement(IntValue(Identifier("x"))),
                                 LoopStatement(IntegerLiteral(MaxLoopCount),
                                               Decrement("x", Identifier("y")))},
                                MaxProgramLen)}

InitLargeValues ==
    /\ BigIdle
    /\ LexIdle
    /\ stderr = <<>>
    /\ grammar = [productions |-> <<>>]
    /\ nullable_status = <<>>
    /\ firstSetsForNonTerminals = <<>>
    /\ canonical_collection = <<>>
    /\ queue = <<>>
    /\ queue_front = 0
    /\ action_table = <<>>
    /\ goto_table = <<>>
    /\ conflicts = <<>>
    /\ freed_set = "none"
    /\ parser = [input |-> <<>>]
    /\ root_ast \in LargeValuePrograms
    /\ pc = [at |-> "interpret_program", i |-> 0]
    /\ SetIdle
    /\ RunIdle

SpecLargeValues == InitLargeValues /\ [][NextInterp]_vars

Fits(v) == -Capacity < v /\ v < Capacity

Abs(v) == IF v < 0 THEN -v ELSE v

Body(s) == IF Len(s) > 0 /\ s[1] \in {"+", "-"} THEN Tail(s) ELSE s

ValidDecimal(s) == Len(Body(s)) >= 1 /\ \A i \in 1..Len(Body(s)) : IsDigit(Body(s)[i])

RECURSIVE StripZeros(_)
StripZeros(digits) ==
    IF Len(digits) > 1 /\ digits[1] = "0" THEN StripZeros(Tail(digits)) ELSE digits

Canonical(s) ==
    LET digits == StripZeros(Body(s))
    IN  IF s[1] = "-" /\ digits # <<"0">> THEN <<"-">> \o digits ELSE digits

\* C4: for every valid decimal string whose value fits NUM_LIMBS limbs,
\* big_int_to_string of big_int_from_string of it is its canonical form.
C4_RoundTripCanonical ==
    (call.fn = "big_int_to_string" /\ ValidDecimal(str)
        /\ DecimalValue(Body(str)) < Capacity)
    => str_buffer = Canonical(str)

\* C5: when a + b fits, big_int_add(r, a, b) leaves r = a + b with the sign
\* of a sign-magnitude number (1 or -1, and 1 for zero), also when r is a or b.
C5_AddExact ==
    (call.fn = "big_int_add" /\ Fits(call.va + call.vb))
    => /\ Value(mem[call.result]) = call.va + call.vb
       /\ Mag(mem[call.result].limbs) = Abs(call.va + call.vb)
       /\ mem[call.result].sign = (IF call.va + call.vb < 0 THEN -1 ELSE 1)

\* r is the object a; b is another object of the other sign and the larger
\* magnitude, so the magnitude of a is subtracted from b's into a itself.
C5_Witness ==
    /\ call.fn = "big_int_add"
    /\ call.result = "a" /\ call.a = "a" /\ call.b = "b"
    /\ call.va > LimbBase /\ call.vb < 0 /\ call.va + call.vb < -LimbBase
    /\ Value(mem["a"]) = call.va + call.vb

\* C6: an addition or subtraction whose true result needs more than
\* NUM_LIMBS limbs tells its caller so.
C6_OverflowSignalled ==
    /\ (call.fn = "big_int_abs_add" /\ Abs(call.va) + Abs(call.vb) >= Capacity)
          => stderr # <<>>
    /\ (call.fn = "big_int_add" /\ ~Fits(call.va + call.vb)) => stderr # <<>>
    /\ (call.fn = "big_int_sub" /\ ~Fits(call.va - call.vb)) => stderr # <<>>

\* The digits of a literal: what follows the optional sign.
AfterSign(s) == IF Len(s) > 0 /\ s[1] \in {"-", "+"} THEN Tail(s) ELSE s

IsLiteral(s) == AfterSign(s) # <<>> /\ \A i \in 1..Len(AfterSign(s)) : IsDigit(AfterSign(s)[i])

\* What the caller of big_int_from_string(r, "0") has in hand after the call.
ParsedZero == Let(big_int_from_string(mem, "r", <<"0">>), LAMBDA z : <<z.m["r"], z.err>>)

\* C17: big_int_from_string on a string that, after the optional sign, has a
\* character that is no digit, or no digit at all, signals the failure, and
\* what the caller then has differs from what parsing "0" leaves.
C17_InvalidLiteralSignalled ==
    (call.fn = "big_int_from_string" /\ ~IsLiteral(str))
        => /\ stderr # <<>>
           /\ <<mem["r"], stderr>> # ParsedZero

\* C18: whatever big_int_zero, big_int_from_long_long, big_int_from_string,
\* big_int_add and big_int_sub calls were made, in whatever order, every
\* BigInt whose magnitude is zero has the sign +1.
C18_ZeroIsPositive ==
    \A o \in Callers \cup Locals : is_zero(mem[o]) => mem[o].sign = 1

\* a is negative, b is -a, and the third call has added them into r.
C18_Witness ==
    /\ call.fn = "big_int_add"
    /\ call.result = "r" /\ call.a = "a" /\ call.b = "b"
    /\ call.va < 0 /\ call.vb = -call.va
    /\ is_zero(mem["r"]) /\ mem["r"].sign = 1

\* The two operands with the signs sa and sb in place of their own.
WithSigns(sa, sb) ==
    [mem EXCEPT !["a"].sign = sa, !["b"].sign = sb]

\* C19: big_int_abs_compare(a, b) returns -1, 0 or 1; the result is the same
\* whatever the signs of a and b are, it is 0 exactly when the magnitudes are
\* equal, and big_int_abs_compare(b, a) is its negation.
C19_AbsCompare ==
    call.fn = "big_int_abs_compare"
        => /\ call.ret \in {-1, 0, 1}
           /\ \A sa \in {1, -1}, sb \in {1, -1} :
                  big_int_abs_compare(WithSigns(sa, sb), call.a, call.b) = call.ret
           /\ (call.ret = 0) <=> (Mag(mem[call.a].limbs) = Mag(mem[call.b].limbs))
           /\ big_int_abs_compare(mem, call.b, call.a) = -call.ret

\* Two different objects of opposite signs whose magnitudes differ in the
\* least significant limb only, the first being the smaller.
C19_Witness ==
    /\ call.fn = "big_int_abs_compare" /\ call.a = "a" /\ call.b = "b"
    /\ call.va < -LimbBase /\ call.vb = 1 - call.va
    /\ call.ret = -1

\* C20: big_int_to_long_long returns false exactly when the value is below
\* LLONG_MIN or above LLONG_MAX, and when it returns true *out_val is the
\* value; called on what big_int_from_long_long(v) left it returns true with
\* *out_val = v, for every long long v (the negation of LLONG_MIN wrapping).
C20_ToLongLong ==
    call.fn = "big_int_to_long_long"
        => /\ ~call.ok <=> (call.va < LLONG_MIN \/ call.va > LLONG_MAX)
           /\ call.ok => call.out_val = call.va
           /\ call.prev = "big_int_from_long_long"
                 => call.ok /\ call.out_val = call.val

\* LLONG_MIN has gone into a BigInt and come back.
C20_Witness ==
    /\ call.fn = "big_int_to_long_long" /\ call.prev = "big_int_from_long_long"
    /\ call.val = LLONG_MIN /\ mem["r"].limbs[1] = LLONG_MAX + 1
    /\ call.ok /\ call.out_val = LLONG_MIN

(***************************************************************************)
(* Claims about the lexer                                                  *)
(***************************************************************************)
RECURSIVE Concat(_)
Concat(ss) == IF ss = <<>> THEN <<>> ELSE Head(ss) \o Concat(Tail(ss))

IsPrefix(p, t) == Len(p) <= Len(t) /\ SubSeq(t, 1, Len(p)) = p

Types == [i \in 1..Len(tokens) |-> tokens[i].type]

Last == tokens[Len(tokens)]

\* C2: when lexer() has returned its tokens, their lexemes (EOF excluded) and
\* the text skipped between them, in order, are the input: all of it when the
\* last token is EOF, the part before the error token otherwise.
C2_LexemesReconstructInput ==
    num_tokens_out > 0 =>
        IF Last.type = "TOKEN_EOF" THEN Concat(pieces) = ctx.input
        ELSE IsPrefix(Concat(SubSeq(pieces, 1, Len(pieces) - 1)), ctx.input)

\* C3: no token but the last one is EOF or ERROR, and when lexer() has
\* returned, it has returned tokens whose last one is EOF or ERROR.
C3_TerminatesWellEnded ==
    /\ \A i \in 1..Len(tokens) :
          tokens[i].type \in {"TOKEN_EOF", "TOKEN_ERROR"} => i = Len(tokens)
    /\ num_tokens_out # -1 =>
          /\ tokens # <<>>
          /\ Last.type \in {"TOKEN_EOF", "TOKEN_ERROR"}
          /\ num_tokens_out = Len(tokens)

\* C9: an INTEGER token carries the mathematical value of its lexeme.
C9_IntegerValueExact ==
    \A i \in 1..Len(tokens) :
        tokens[i].type = "TOKEN_INTEGER" => tokens[i].int_value = DecimalValue(tokens[i].lexeme)

AllDigits(cs) == cs # <<>> /\ \A i \in 1..Len(cs) : IsDigit(cs[i])

\* C10: an input that is '-' and digits is lexed as the one INTEGER token
\* with that lexeme, of the value it denotes when long long holds it, then
\* EOF; and "x -= 5" as IDENTIFIER, MINUS_ASSIGN, INTEGER, EOF.
C10_NegativeLiteral ==
    num_tokens_out # -1 =>
        /\ (ctx.input # <<>> /\ ctx.input[1] = "-" /\ AllDigits(Tail(ctx.input))) =>
              /\ Types = <<"TOKEN_INTEGER", "TOKEN_EOF">>
              /\ tokens[1].lexeme = ctx.input
              /\ DecimalValue(Tail(ctx.input)) <= LLONG_MAX =>
                    tokens[1].int_value = -DecimalValue(Tail(ctx.input))
        /\ ctx.input = <<"x", " ", "-", "=", " ", "5">> =>
              Types = <<"TOKEN_IDENTIFIER", "TOKEN_MINUS_ASSIGN", "TOKEN_INTEGER", "TOKEN_EOF">>

Quote == "\""

Finished == num_tokens_out # -1

\* The number of elements of s that are in S.
CountIn(s, S) == Cardinality({i \in 1..Len(s) : s[i] \in S})

\* A '"', bytes that are no '"', and with closed the closing '"'; short
\* enough for the lexeme buffer.
IsStringText(s, closed) ==
    /\ Len(s) < MaxLexemeLength
    /\ Len(s) >= (IF closed THEN 2 ELSE 1)
    /\ s[1] = Quote
    /\ \A i \in 2..Len(s) : (s[i] = Quote) <=> (closed /\ i = Len(s))

\* C11: a '"', bytes other than '"' and a closing '"' are one STRING token
\* whose lexeme is the whole text; when the input ends before the closing
\* quote the token is an ERROR token.
C11_StringLiteral ==
    Finished =>
        /\ IsStringText(ctx.input, TRUE) =>
              /\ Types = <<"TOKEN_STRING", "TOKEN_EOF">>
              /\ tokens[1].lexeme = ctx.input
        /\ IsStringText(ctx.input, FALSE) => Types = <<"TOKEN_ERROR">>

IdentChar(ch) == ch \in Alpha \/ IsDigit(ch)

\* The end of the maximal run of letters, digits and underscores from i.
RECURSIVE RunEnd(_, _)
RunEnd(s, i) == IF i < Len(s) /\ IdentChar(s[i + 1]) THEN RunEnd(s, i + 1) ELSE i

IsRunStart(s, i) == IdentChar(s[i]) /\ (i = 1 \/ ~IdentChar(s[i - 1]))

\* The maximal runs that start with a letter or an underscore, in order.
RECURSIVE Runs(_, _)
Runs(s, i) ==
    IF i > Len(s) THEN <<>>
    ELSE IF IsRunStart(s, i) /\ s[i] \in Alpha
    THEN <<SubSeq(s, i, RunEnd(s, i))>> \o Runs(s, RunEnd(s, i) + 1)
    ELSE Runs(s, i + 1)

\* Every run of letters, digits and underscores fits the lexeme buffer.
RunsFit(s) ==
    \A i \in 1..Len(s) : IsRunStart(s, i) => RunEnd(s, i) - i + 1 < MaxLexemeLength - 1

\* Characters that start no comment, string or operator.
PlainChars == {"x", "5", " ", ";", "\n"}

IsStarPair(s, k) == k >= 1 /\ k < Len(s) /\ s[k] = "*" /\ s[k + 1] = "*"

\* Plain text, then "**", and no "**" behind it.
HasOpenComment(s) ==
    \E k \in 1..Len(s) :
        /\ IsStarPair(s, k)
        /\ \A i \in 1..(k - 1) : s[i] \in PlainChars
        /\ \A j \in (k + 2)..Len(s) : ~IsStarPair(s, j)

\* Plain text and stars, no star next to a star.
HasLoneStarsOnly(s) ==
    /\ \A i \in 1..Len(s) : s[i] \in PlainChars \cup {"*"}
    /\ RunsFit(s)
    /\ \A k \in 1..Len(s) : ~IsStarPair(s, k)

\* C12: "a ** abc ** b" is the identifiers a and b; a comment that is not
\* closed gives an ERROR token and no EOF token; a '*' with no '*' next to
\* it is a STAR token.
C12_Comments ==
    Finished =>
        /\ ctx.input = <<"a", " ", "*", "*", " ", "a", "b", "c", " ", "*", "*", " ", "b">> =>
              /\ Types = <<"TOKEN_IDENTIFIER", "TOKEN_IDENTIFIER", "TOKEN_EOF">>
              /\ tokens[1].lexeme = <<"a">>
              /\ tokens[2].lexeme = <<"b">>
        /\ HasOpenComment(ctx.input) =>
              /\ tokens # <<>>
              /\ Last.type = "TOKEN_ERROR"
              /\ CountIn(Types, {"TOKEN_EOF"}) = 0
        /\ HasLoneStarsOnly(ctx.input) =>
              /\ CountIn(Types, {"TOKEN_ERROR"}) = 0
              /\ CountIn(Types, {"TOKEN_STAR"}) = CountIn(ctx.input, {"*"})

KindOfRun(run) ==
    IF \E k \in 1..Len(Keywords) : Keywords[k] = run
    THEN KeywordTypes[CHOOSE k \in 1..Len(Keywords) : Keywords[k] = run]
    ELSE "TOKEN_IDENTIFIER"

\* No string, no comment, no run that starts with a digit and holds a
\* letter, no run too long for the lexeme buffer.
HasPlainRuns(s) ==
    /\ \A i \in 1..Len(s) : s[i] \notin {Quote, "*"}
    /\ RunsFit(s)
    /\ \A i \in 1..Len(s) :
          (IsRunStart(s, i) /\ IsDigit(s[i])) => \A j \in i..RunEnd(s, i) : IsDigit(s[j])

WordTypes == SelectSeq(Types, LAMBDA t : t \in Range(KeywordTypes) \cup {"TOKEN_IDENTIFIER"})

\* C13: the keyword and IDENTIFIER tokens are, in order, the maximal runs of
\* letters, digits and underscores that start with a letter or underscore:
\* a keyword's own kind for a run that is a keyword, IDENTIFIER for every
\* other run (all of the runs when the lexer reached EOF).
C13_KeywordsAndIdentifiers ==
    (Finished /\ HasPlainRuns(ctx.input)) =>
        LET kinds == [i \in 1..Len(Runs(ctx.input, 1)) |-> KindOfRun(Runs(ctx.input, 1)[i])]
        IN  /\ IsPrefix(WordTypes, kinds)
            /\ (tokens # <<>> /\ Last.type = "TOKEN_EOF") => WordTypes = kinds

\* The tokens that lexer() gives for pre: one for each of these texts.
OperatorPrefixes == {<<>>, <<" ">>, <<"x">>, <<"5">>, <<";">>}

TokensOf(pre) == IF pre \in {<<>>, <<" ">>} THEN 0 ELSE 1

\* An operator text, what follows it, and the token it is to give.
OperatorCases ==
    {[text |-> <<":">>, next |-> {<<>>, <<" ">>, <<"x">>, <<":">>}, type |-> "TOKEN_ERROR"],
     [text |-> <<"-">>, next |-> {<<>>, <<" ">>, <<"x">>, <<"-">>}, type |-> "TOKEN_ERROR"],
     [text |-> <<"+">>, next |-> {<<>>, <<" ">>, <<"x">>, <<"5">>}, type |-> "TOKEN_PLUS"],
     [text |-> <<"*">>, next |-> {<<>>, <<" ">>, <<"x">>, <<"5">>}, type |-> "TOKEN_STAR"],
     [text |-> <<":", "=">>, next |-> {<<>>, <<"5">>}, type |-> "TOKEN_ASSIGN"],
     [text |-> <<"+", "=">>, next |-> {<<>>, <<"5">>}, type |-> "TOKEN_PLUS_ASSIGN"],
     [text |-> <<"-", "=">>, next |-> {<<>>, <<"5">>}, type |-> "TOKEN_MINUS_ASSIGN"]}

\* C14: a ':' with no '=' behind it and a '-' with neither '=' nor a digit
\* behind it give an ERROR token, a '+' with no '=' behind it gives PLUS, a
\* '*' with no '*' behind it gives STAR, and ":=", "+=", "-=" give ASSIGN,
\* PLUS_ASSIGN, MINUS_ASSIGN: at the start of the input and behind a blank,
\* an identifier, an integer or a semicolon.
C14_Operators ==
    Finished =>
        \A pre \in OperatorPrefixes, c \in OperatorCases :
            \A next \in c.next :
                ctx.input = pre \o c.text \o next =>
                    /\ Len(tokens) > TokensOf(pre)
                    /\ tokens[TokensOf(pre) + 1].type = c.type

IdentifierTokens == {i \in 1..Len(tokens) : tokens[i].type = "TOKEN_IDENTIFIER"}

IsFirstOccurrence(i) ==
    \A j \in IdentifierTokens : j < i => tokens[j].lexeme # tokens[i].lexeme

\* C15: every IDENTIFIER token carries the index (6 or more, below
\* symbol_count) of the symbol-table entry named by its lexeme; two of them
\* carry the same index exactly when their lexemes are equal; indices grow
\* in the order of first occurrence; the keywords keep the entries 0..5 in
\* their order; no two entries have the same name.
C15_SymbolTable ==
    LET table == ctx.symbol_table
    IN  /\ \A i \in IdentifierTokens :
              /\ tokens[i].symbol_index >= Len(Keywords)
              /\ tokens[i].symbol_index < Len(table)
              /\ table[tokens[i].symbol_index + 1].name = tokens[i].lexeme
        /\ \A i, j \in IdentifierTokens :
              (tokens[i].symbol_index = tokens[j].symbol_index)
                  <=> (tokens[i].lexeme = tokens[j].lexeme)
        /\ \A i, j \in IdentifierTokens :
              (i < j /\ IsFirstOccurrence(i) /\ IsFirstOccurrence(j))
                  => tokens[i].symbol_index < tokens[j].symbol_index
        /\ \A k \in 1..Len(Keywords) :
              /\ table[k].name = Keywords[k]
              /\ table[k].type = KeywordTypes[k]
              /\ table[k].is_keyword
        /\ \A i, j \in 1..Len(table) : table[i].name = table[j].name => i = j

LocationLeq(l1, l2) == l1.line < l2.line \/ (l1.line = l2.line /\ l1.column <= l2.column)

\* C16: from each token to the next the location (line, column) does not
\* decrease.
C16_LocationsMonotone ==
    \A i \in 1..(Len(tokens) - 1) : LocationLeq(tokens[i].location, tokens[i + 1].location)

\* lexer() has returned the tokens of a text with lines, a newline pushed
\* back behind an identifier, and a comment over two lines.
C16_Witness ==
    /\ ctx.input = <<"x", "\n", " ", "y", " ", "*", "*", "\n", "*", "*", "\n", "x", ";">>
    /\ num_tokens_out = 6
    /\ tokens[3].location.line > tokens[2].location.line

(***************************************************************************)
(* Claims about the parser generator and the driver                        *)
(***************************************************************************)
\* C1: for the shipped grammar and a sentence of it followed by EOF, parse()
\* ends in the accept action and returns a Program node whose only child is
\* a StatementList.
C1_SentenceIsAccepted ==
    (pc.at = "done" /\ grammar = ShippedGrammar /\ parser.input \in Sentences) =>
        /\ root_ast.type = "AST_PROGRAM"
        /\ Len(root_ast.children) = 1
        /\ root_ast.children[1].type = "AST_STATEMENT_LIST"

\* C7: for the shipped grammar build_parsing_tables never finds a non-error
\* ACTION entry in the cell it is about to write.
C7_ShippedGrammarHasNoConflict == grammar = ShippedGrammar => conflicts = <<>>

DifferentActionsMet == \E i \in 1..Len(conflicts) : conflicts[i].existing # conflicts[i].new

\* C8: once table construction has met two different actions for one cell,
\* the build has failed: no action is picked for the cell to go on with, and
\* parse() is never run with the tables.
C8_ConflictIsFatal == DifferentActionsMet => pc.at \notin {"parse", "done"}

\* lexer() failed: it returned no token or a token sequence ending in an error.
LexicalError ==
    parser.input = <<>> \/ parser.input[Len(parser.input)].type = "TOKEN_ERROR"

\* C21: main() exits with status 0 only if lexer() gave tokens without an
\* error, parse() returned a tree and the interpreter reported no runtime
\* error.
C21_ExitStatusZeroMeansSuccess ==
    exit_status = 0
        => /\ ~LexicalError
           /\ root_ast # NULL
           /\ \A i \in 1..Len(stderr) : stderr[i] \notin RuntimeErrors

\* create_lr1_sets has returned: the canonical collection is complete.
CollectionBuilt == pc.at \notin {"create_lr1_sets", "create_lr1_sets_loop", "exit"}

\* The states that hold the item of production 0 with the dot at the end and
\* T_EOF among its lookaheads.
AcceptStates ==
    {s \in 1..Len(canonical_collection) :
        \E i \in 1..Len(canonical_collection[s]) :
            /\ canonical_collection[s][i].production_id = 0
            /\ canonical_collection[s][i].dot_position = right_count(Production(grammar, 0))
            /\ T_EOF \in canonical_collection[s][i].lookahead_set}

\* C27: in the canonical collection of the shipped grammar exactly one state
\* holds the completed item of production 0 with the end marker as lookahead.
C27_OneAcceptState ==
    (CollectionBuilt /\ grammar = ShippedGrammar) => Cardinality(AcceptStates) = 1

C27_Witness ==
    /\ CollectionBuilt
    /\ grammar = ShippedGrammar
    /\ Len(canonical_collection) > 1
    /\ AcceptStates # {}

\* Some item of I has the grammar symbol X, of X's type and id, right of its dot.
HasAfterDot(I, X) ==
    \E i \in 1..Len(I) :
        /\ I[i].dot_position < right_count(Production(grammar, I[i].production_id))
        /\ Production(grammar, I[i].production_id).right_symbols[I[i].dot_position + 1] = X

\* C28: for every item set I of the canonical collection of the shipped
\* grammar and every terminal or nonterminal X of it, with the ids main()
\* gives them, goto_set(I, X) is empty when no item of I has X right of its dot.
C28_GotoEmptyWithoutSymbol ==
    (CollectionBuilt /\ grammar = ShippedGrammar) =>
        \A s \in 1..Len(canonical_collection) :
        \A k \in 1..Len(grammar.terminals \o grammar.non_terminals) :
            ~HasAfterDot(canonical_collection[s], (grammar.terminals \o grammar.non_terminals)[k])
                => goto_set(canonical_collection[s], (grammar.terminals \o grammar.non_terminals)[k],
                            grammar, nullable_status, firstSetsForNonTerminals) = <<>>

NonTerminalIds == 0..(MAX_NON_TERMINALS - 1)

\* A step that is one pass of the loop that runs.
PassTaken == pc.at = "compute_sets" /\ pass_changed /\ pc' = pc

\* No set has lost an element in the step, and some set has gained one.
SetsEnlarged ==
    /\ \A id \in NonTerminalIds :
          /\ nullable_status[id] => nullable_status'[id]
          /\ firstSetsForNonTerminals[id] \subseteq firstSetsForNonTerminals'[id]
          /\ followSetsForNonTerminals[id] \subseteq followSetsForNonTerminals'[id]
    /\ \E id \in NonTerminalIds :
          \/ ~nullable_status[id] /\ nullable_status'[id]
          \/ firstSetsForNonTerminals[id] # firstSetsForNonTerminals'[id]
          \/ followSetsForNonTerminals[id] # followSetsForNonTerminals'[id]

\* The last loop of main()'s three calls has ended.
SetsComputed ==
    \/ pc = [at |-> "compute_sets", i |-> Len(SetLoops)] /\ ~pass_changed
    \/ pc.at \in {"closure", "closed"}

\* C26: compute_nullable_set, compute_first_sets and compute_follow_sets
\* terminate on every grammar: a pass that sets changed = true has strictly
\* enlarged some set, a loop whose pass changed nothing runs no further
\* pass, and the last of the loops ends.
C26_SetLoopsTerminate ==
    /\ [][PassTaken /\ pass_changed' => SetsEnlarged]_vars
    /\ [][pc.at = "compute_sets" /\ ~pass_changed
             => pc' # pc /\ (pc'.at = "compute_sets" => pc'.i = pc.i + 1)]_vars
    /\ <>SetsComputed

C26_Witness ==
    /\ pc = [at |-> "compute_sets", i |-> Len(SetLoops)]
    /\ ~pass_changed
    /\ \E id \in NonTerminalIds : nullable_status[id]
    /\ \E id \in NonTerminalIds : Cardinality(firstSetsForNonTerminals[id]) > 1
    /\ \E id \in NonTerminalIds : Cardinality(followSetsForNonTerminals[id]) > 1

\* The nonterminal with this id derives the empty string by a derivation
\* tree of at most this height.
RECURSIVE DerivesEmpty(_, _, _)
DerivesEmpty(g, id, height) ==
    /\ height > 0
    /\ \E i \in 1..Len(g.productions) :
          /\ g.productions[i].left_symbol.id = id
          /\ \A j \in 1..Len(g.productions[i].right_symbols) :
                /\ g.productions[i].right_symbols[j].type = "SYMBOL_NONTERMINAL"
                /\ DerivesEmpty(g, g.productions[i].right_symbols[j].id, height - 1)

\* The ids of the nonterminals that derive the empty string: a derivation
\* tree without a repeated nonterminal on a branch is enough.
EmptyDeriving(g) ==
    {id \in 0..(NUM_NON_TERMINALS_DEFINED - 1) : DerivesEmpty(g, id, NUM_NON_TERMINALS_DEFINED)}

\* What the FIRST rules ask FIRST(A) to hold, given the sets F: for
\* A -> Y1 ... Yk the terminal Yj, or F[Yj], whenever Y1 ... Yj-1 all derive
\* the empty string.
FirstRules(g, F, empty) ==
    [id \in 0..(NUM_NON_TERMINALS_DEFINED - 1) |->
        UNION {UNION {IF p.right_symbols[j].type = "SYMBOL_TERMINAL"
                      THEN {p.right_symbols[j].id}
                      ELSE F[p.right_symbols[j].id] :
                      j \in {k \in 1..Len(p.right_symbols) :
                                \A l \in 1..(k - 1) :
                                    /\ p.right_symbols[l].type = "SYMBOL_NONTERMINAL"
                                    /\ p.right_symbols[l].id \in empty}} :
               p \in {g.productions[i] : i \in {n \in 1..Len(g.productions) :
                                                  g.productions[n].left_symbol.id = id}}}]

\* The least sets that satisfy the FIRST rules, from the empty sets upwards.
RECURSIVE LeastFirst(_, _, _)
LeastFirst(g, F, empty) ==
    Let(FirstRules(g, F, empty), LAMBDA G : IF G = F THEN F ELSE LeastFirst(g, G, empty))

\* compute_first_sets has returned to main() or to compute_follow_sets.
FirstSetsComputed ==
    \/ pc.at = "compute_sets" /\ pc.i \in {3, 6} /\ ~pass_changed
    \/ pc.at = "compute_sets" /\ pc.i = 7
    \/ pc.at \in {"closure", "closed"}

FirstOfString(beta, least, empty) ==
    UNION {IF beta[j].type = "SYMBOL_TERMINAL" THEN {beta[j].id} ELSE least[beta[j].id] :
           j \in {k \in 1..Len(beta) :
                     \A l \in 1..(k - 1) : /\ beta[l].type = "SYMBOL_NONTERMINAL"
                                           /\ beta[l].id \in empty}}

StringDerivesEmpty(beta, empty) ==
    \A l \in 1..Len(beta) : beta[l].type = "SYMBOL_NONTERMINAL" /\ beta[l].id \in empty

\* An item set as a relation: its cores <<production, dot>> and the pairs
\* <<core, lookahead>>.
Cores(J) == {<<J[i].production_id, J[i].dot_position>> : i \in 1..Len(J)}

Lookaheads(J) ==
    UNION {{<<<<J[i].production_id, J[i].dot_position>>, t>> : t \in J[i].lookahead_set} :
           i \in 1..Len(J)}

\* What the LR(1) closure rule asks for, given the cores C and lookaheads T:
\* for [A -> alpha . B beta, L] and B -> gamma the item [B -> . gamma] with
\* FIRST(beta) and, when beta derives the empty string, L.
ClosureRule(g, C, T, least, empty) ==
    LET asks == {<<c, q>> \in C \X (0..(Len(g.productions) - 1)) :
                    /\ c[2] < right_count(Production(g, c[1]))
                    /\ Production(g, c[1]).right_symbols[c[2] + 1].type = "SYMBOL_NONTERMINAL"
                    /\ Production(g, c[1]).right_symbols[c[2] + 1]
                           = Production(g, q).left_symbol}
        beta(c) == SubSeq(Production(g, c[1]).right_symbols, c[2] + 2,
                          right_count(Production(g, c[1])))
    IN  [cores |-> C \cup {<<a[2], 0>> : a \in asks},
         lookaheads |->
             T \cup UNION {{<<<<a[2], 0>>, t>> :
                               t \in FirstOfString(beta(a[1]), least, empty)
                                     \cup (IF StringDerivesEmpty(beta(a[1]), empty)
                                           THEN {l[2] : l \in {m \in T : m[1] = a[1]}}
                                           ELSE {})} :
                           a \in asks}]

\* The least relation that holds C and T and satisfies the closure rule.
RECURSIVE LeastClosure(_, _, _, _, _)
LeastClosure(g, C, T, least, empty) ==
    Let(ClosureRule(g, C, T, least, empty),
        LAMBDA r : IF r.cores = C /\ r.lookaheads = T THEN r
                   ELSE LeastClosure(g, r.cores, r.lookaheads, least, empty))

\* The step is the call of closure() on the item set J.
ClosureCalled == pc.at = "closure" /\ pc'.at = "closed"

ParentsOf(address) ==
    {n \in 1..Len(heap) :
        \E i \in 1..Len(heap[n].children \o heap[n].data) :
            (heap[n].children \o heap[n].data)[i] = address}

\* The nodes of the tree under the address, the node itself among them.
RECURSIVE NodesUnder(_, _)
NodesUnder(addresses, seen) ==
    IF addresses \subseteq seen THEN seen
    ELSE NodesUnder(UNION {{heap[n].children[i] : i \in 1..Len(heap[n].children)}
                           \cup {heap[n].data[i] : i \in 1..Len(heap[n].data)} :
                           n \in addresses \ seen} \ {0},
                    seen \cup addresses)

\* C25: the AST that parse() returns is a strict tree: every node of it is
\* referenced, through children[] or a data field, by at most one parent.
C25_AstIsStrictTree ==
    pc.at = "parsed_ast" =>
        \A n \in NodesUnder({root_ast} \ {0}, {}) : Cardinality(ParentsOf(n)) <= 1

\* The interpreter has reported a runtime error.
RuntimeErrorReported == \E i \in 1..Len(stderr) : stderr[i] \in RuntimeErrors

\* C22: the interpreter halts at its first runtime error: the step that
\* reports it and every later step change neither the environment nor the
\* program's output (`write x` with x undeclared writes nothing for x), and
\* once an error is reported no further statement is executed.
C22_HaltsAtFirstRuntimeError ==
    [][pc.at = "interpret" =>
          /\ RuntimeErrorReported' =>
                /\ interp'.global_runtime_sym_table = interp.global_runtime_sym_table
                /\ interp'.stdout = interp.stdout
          /\ (RuntimeErrorReported /\ InStatementList) => interp' = interp]_vars

\* The name has a binding in the environment.
Bound(name) ==
    \E i \in 1..Len(interp.global_runtime_sym_table) :
        interp.global_runtime_sym_table[i].name = name

\* What the step of the statement that runs next does to the environment.
EnvironmentRule ==
    LET name == CurrentStatement.children[1].data
        table == interp.global_runtime_sym_table
    IN  /\ (CurrentStatement.type = "AST_DECLARATION" /\ ~Bound(name)) =>
              /\ interp'.global_runtime_sym_table = Append(table, [name |-> name, value |-> ZeroBigInt])
              /\ Value(ZeroBigInt) = 0
        /\ (CurrentStatement.type = "AST_DECLARATION" /\ Bound(name)) =>
              /\ interp'.global_runtime_sym_table = table
              /\ stderr' = Append(stderr, "Runtime Error: Variable already declared")
        /\ (CurrentStatement.type \in {"AST_ASSIGNMENT", "AST_INCREMENT", "AST_DECREMENT"}
            /\ ~Bound(name)) =>
              /\ interp'.global_runtime_sym_table = table
              /\ Len(stderr') > Len(stderr)
              /\ stderr'[Len(stderr')] \in RuntimeErrors

\* C23: the environment holds at most one binding per name; the declaration
\* of an unbound name appends a binding with value zero; a redeclaration is
\* rejected and leaves the environment as it is; an assignment, increment
\* or decrement of an unbound name is rejected, leaves the environment as it
\* is and creates no binding.
C23_EnvironmentBindings ==
    /\ [](pc.at = "interpret" =>
             \A i \in 1..Len(interp.global_runtime_sym_table) :
             \A j \in 1..Len(interp.global_runtime_sym_table) :
                 interp.global_runtime_sym_table[i].name = interp.global_runtime_sym_table[j].name
                     => i = j)
    /\ [][InStatementList => EnvironmentRule]_vars

\* A declaration has made a binding, a redeclaration and an assignment to an
\* unbound name were rejected.
C23_Witness ==
    /\ pc.at = "interpret"
    /\ Len(interp.global_runtime_sym_table) = 1
    /\ \E i \in 1..Len(stderr) : stderr[i] = "Runtime Error: Variable already declared"
    /\ \E i \in 1..Len(stderr) : stderr[i] = "Runtime Error: Undeclared variable in assignment"

\* The program declares x, gives it the count and runs the loop over x.
CountedLoop(val, body) ==
    ProgramNode(<<Declaration("x"), Assignment("x", IntegerLiteral(val)),
                  LoopStatement(Identifier("x"), body)>>)

\* interpret_program has run the last statement.
ProgramFinished == pc.at = "interpret" /\ interp.frames = <<>>

\* C24: a loop whose count is n when it is entered runs its body no time for
\* n = 0, no time and with a runtime error for n < 0, and exactly n times
\* for n > 0, also when the body assigns to the count variable.
C24_LoopRunsCountTimes ==
    ProgramFinished =>
        \A val \in -1..MaxLoopCount : \A body \in LoopBodies :
            root_ast = CountedLoop(val, body) =>
                /\ CountIn(interp.stdout, {<<"a">>}) = IF val > 0 THEN val ELSE 0
                /\ ("Runtime Error: Loop count cannot be negative" \in Range(stderr)) <=> (val < 0)

\* The loop over x = MaxLoopCount whose body sets x to 0 has finished.
C24_Witness ==
    /\ ProgramFinished
    /\ \E body \in LoopBodies :
          /\ body.type = "AST_CODE_BLOCK"
          /\ root_ast = CountedLoop(MaxLoopCount, body)
    /\ CountIn(interp.stdout, {<<"a">>}) = MaxLoopCount
    /\ interp.global_runtime_sym_table[1].value # IntegerLiteral(MaxLoopCount).data

\* create_lr1_sets is about to return: its queue is empty.
Lr1SetsReturns == pc.at = "create_lr1_sets_loop" /\ queue_front >= Len(queue)

\* The item set J is a set of the collection that has not been freed.
LiveMember(J) ==
    \E t \in 1..Len(canonical_collection) :
        canonical_collection[t] # <<>> /\ item_sets_equal(canonical_collection[t], J)

GotoTargetMissed ==
    \E i \in 1..Len(stderr) :
        stderr[i] \in {"Error: GOTO state not found in canonical collection for shift.",
                       "Error: GOTO state for non-terminal not found."}

\* C31: when create_lr1_sets returns, every non-empty goto_set(I, X) of a
\* state I of the collection and a grammar symbol X is equal to a live member
\* of the collection, and build_parsing_tables never reports a Goto target
\* that it did not find.
C31_ClosedUnderGoto ==
    /\ Lr1SetsReturns =>
          \A s \in 1..Len(canonical_collection) :
          \A k \in 1..Len(grammar.terminals \o grammar.non_terminals) :
              Let(goto_set(canonical_collection[s],
                           (grammar.terminals \o grammar.non_terminals)[k],
                           grammar, nullable_status, firstSetsForNonTerminals),
                  LAMBDA J : Len(J) > 0 => LiveMember(J))
    /\ ~GotoTargetMissed

\* create_lr1_sets is in its loop, or at its end.
InCreateLr1Sets == pc.at = "create_lr1_sets_loop"

\* For every state of the collection, the ids of the states that its
\* non-empty Goto sets are found at.
GotoTargets ==
    [s \in 1..Len(canonical_collection) |->
        {find_item_set_in_list(canonical_collection,
                               goto_set(canonical_collection[s],
                                        (grammar.terminals \o grammar.non_terminals)[k],
                                        grammar, nullable_status, firstSetsForNonTerminals),
                               freed_set) :
            k \in {n \in 1..Len(grammar.terminals \o grammar.non_terminals) :
                      goto_items(canonical_collection[s],
                                 (grammar.terminals \o grammar.non_terminals)[n], grammar) # <<>>}}]

\* The first state of the collection that has the state with this id as a Goto set.
FirstSource(targets, id) == CHOOSE s \in 1..Len(targets) :
                                /\ id \in targets[s]
                                /\ \A r \in 1..(s - 1) : id \notin targets[r]

\* C32: while create_lr1_sets runs, no two states of the canonical collection
\* are equal as item sets; the state_id given to the k-th state found is
\* k - 1, its index in the collection; state 0 is the closure of the item of
\* production 0 with the dot at 0 and T_EOF to follow; and the states are
\* numbered in the order a breadth-first search finds them: a state found
\* from an earlier state has the smaller id.
C32_StatesDistinctDenseInOrder ==
    /\ InCreateLr1Sets =>
          /\ \A i \in 1..Len(canonical_collection) : \A j \in (i + 1)..Len(canonical_collection) :
                ~item_sets_equal(canonical_collection[i], canonical_collection[j])
          /\ queue = [k \in 1..Len(canonical_collection) |-> k - 1]
          /\ canonical_collection[1] = closure(<<initial_item>>, grammar, nullable_status,
                                               firstSetsForNonTerminals)
    /\ Lr1SetsReturns =>
          Let(GotoTargets,
              LAMBDA targets :
                  \A i \in 2..Len(canonical_collection) : \A j \in (i + 1)..Len(canonical_collection) :
                      /\ \E s \in 1..Len(targets) : i - 1 \in targets[s]
                      /\ \E s \in 1..Len(targets) : j - 1 \in targets[s]
                      /\ FirstSource(targets, i - 1) <= FirstSource(targets, j - 1))

\* build_parsing_tables has returned and parse() has not been called yet.
TablesBuilt == pc.at = "build_parsing_tables" /\ pc.i >= Len(canonical_collection)

\* Goto(I, X): the closure of the items of I that have the symbol X, terminal
\* or nonterminal, right of the dot, the dot moved over it.
Goto(I, X) ==
    LET moves(item) ==
            /\ item.dot_position < right_count(Production(grammar, item.production_id))
            /\ Production(grammar, item.production_id).right_symbols[item.dot_position + 1] = X
        J == SelectSeq(I, moves)
    IN  closure([n \in 1..Len(J) |-> [J[n] EXCEPT !.dot_position = @ + 1]],
                grammar, nullable_status, firstSetsForNonTerminals)

\* The id of the state of the collection that is equal to the item set J.
StateId(J) == (CHOOSE s \in 1..Len(canonical_collection) :
                  item_sets_equal(canonical_collection[s], J)) - 1

\* The items of I with the dot at the end and the terminal a among the
\* lookaheads, of production 0 (accepting) or of the other productions.
Completed(I, a, accepting) ==
    {n \in 1..Len(I) :
        /\ I[n].dot_position = right_count(Production(grammar, I[n].production_id))
        /\ a \in I[n].lookahead_set
        /\ (I[n].production_id = 0) = accepting}

\* The ACTION entry that the construction of the parsing table prescribes for
\* the state I and the column t; the end of input is the lookahead T_EOF of
\* the items and the column of the token TOKEN_EOF, which parse() consults.
ExpectedAction(I, t) ==
    IF HasAfterDot(I, create_terminal(t))
    THEN ActionEntry("ACTION_SHIFT", StateId(Goto(I, create_terminal(t))))
    ELSE IF t = TokenType.TOKEN_EOF /\ Completed(I, T_EOF, TRUE) # {}
    THEN ActionEntry("ACTION_ACCEPT", -1)
    ELSE IF Completed(I, t, FALSE) # {}
    THEN ActionEntry("ACTION_REDUCE", I[CHOOSE n \in Completed(I, t, FALSE) : TRUE].production_id)
    ELSE ActionEntry("ACTION_ERROR", -1)

ExpectedGoto(I, N) == IF HasAfterDot(I, N) THEN StateId(Goto(I, N)) ELSE -1

\* C33: when build_parsing_tables has met no conflict, every cell of ACTION
\* holds the shift, the reduce, the accept (in the column of the EOF token) or
\* the error that the items of its state prescribe, and every cell of GOTO
\* holds the id of Goto(I, N), or -1 when that set is empty.
C33_TablesHoldPrescribedEntries ==
    (TablesBuilt /\ conflicts = <<>> /\ freed_set = "none") =>
        \A s \in 1..Len(canonical_collection) :
            /\ \A t \in 0..(MAX_TERMINALS - 1) :
                  action_table[s][t] = ExpectedAction(canonical_collection[s], t)
            /\ \A k \in 1..Len(grammar.non_terminals) :
                  goto_table[s][grammar.non_terminals[k].id]
                      = ExpectedGoto(canonical_collection[s], grammar.non_terminals[k])

\* The ACTION entry that parse() reads in this iteration of its loop.
CurrentAction ==
    action_table[parser_current_state(parser) + 1][TokenType[parser_current_token(parser).type]]

\* parse() takes case ACTION_REDUCE and the semantic action returns.
ReduceTaken ==
    /\ pc.at = "parse"
    /\ ~parser.has_error
    /\ CurrentAction.type = "ACTION_REDUCE"
    /\ pc'.at = "parse"

\* C34: a reduce by production p with the stack at height h takes the top
\* |rhs(p)| entries and never the bottom one; these entries are those of the
\* symbols of the right-hand side, bottom first, and their nodes are the
\* children of the action; one entry with the state GOTO[s, lhs(p)] is pushed
\* over the exposed state s, which leaves the height h - |rhs(p)| + 1 and the
\* cursor where it was; when that GOTO cell is -1 nothing is pushed and
\* parse() ends with an error.
C34_ReducePopsRightHandSide ==
    [][ReduceTaken =>
          LET p == Production(grammar, CurrentAction.target_state_or_production_id)
              n == right_count(p)
              h == Len(parser.stack)
              s == parser.stack[h - n].state
          IN  /\ n < h
              /\ \A i \in 1..n : parser.stack[h - n + i].symbol = p.right_symbols[i]
              /\ child_nodes(parser, n) = [i \in 1..n |-> parser.stack[h - n + i].ast_node]
              /\ parser'.input_position = parser.input_position
              /\ IF goto_table[s + 1][p.left_symbol.id] = -1
                 THEN parser'.stack = SubSeq(parser.stack, 1, h - n) /\ parser'.has_error
                 ELSE /\ Len(parser'.stack) = h - n + 1
                      /\ SubSeq(parser'.stack, 1, h - n) = SubSeq(parser.stack, 1, h - n)
                      /\ parser'.stack[h - n + 1].state = goto_table[s + 1][p.left_symbol.id]
                      /\ parser'.stack[h - n + 1].symbol = p.left_symbol
                      /\ ~parser'.has_error]_vars

\* parse() reads an error cell of ACTION in this iteration of its loop.
ErrorCellRead ==
    /\ pc.at = "parse"
    /\ ~parser.has_error
    /\ CurrentAction.type = "ACTION_ERROR"

\* C35: when the ACTION cell of the top state and the current token is error,
\* the step leaves the stack and the input cursor as they are and records a
\* message that names the line, the column and the lexeme of that token; after
\* it the driver neither shifts nor reduces: the message is reported and
\* parse() returns NULL.
C35_ErrorCellHaltsAndNamesToken ==
    /\ [][ErrorCellRead =>
             /\ parser'.stack = parser.stack
             /\ parser'.input_position = parser.input_position
             /\ parser'.has_error
             /\ parser'.error_message =
                   <<"Syntax error", parser_current_token(parser).location.line,
                     parser_current_token(parser).location.column,
                     parser_current_token(parser).lexeme,
                     parser_current_token(parser).type>>]_vars
    /\ [][(pc.at = "parse" /\ parser.has_error) =>
             /\ parser' = parser
             /\ root_ast' = NULL
             /\ stderr' = Append(stderr, "Parse error")
             /\ pc'.at = "done"]_vars

\* parse() has returned NULL after a syntax error at a token of the input
\* that it reached by shifting.
C35_Witness ==
    /\ pc.at = "done"
    /\ root_ast = NULL
    /\ parser.has_error
    /\ parser.input_position \in 1..(Len(parser.input) - 1)
    /\ Len(parser.stack) > 1
    /\ parser.error_message =
          <<"Syntax error", parser.input[parser.input_position + 1].location.line,
            parser.input[parser.input_position + 1].location.column,
            parser.input[parser.input_position + 1].lexeme,
            parser.input[parser.input_position + 1].type>>

\* The entries of the log that free the object.
FreesOf(log, kind, address) == {i \in 1..Len(log) : log[i] = Free(kind, address)}

\* C36: free_ast_node(root), on a tree the constructors and semantic actions
\* built, frees every node and every array children[] of the tree exactly
\* once, statement lists among them, and uses nothing it has freed.
C36_FreesEachObjectOnce ==
    pc.at = "freed_ast" =>
        /\ \A i \in 1..Len(released) : ~UseAfterFree(released, i)
        /\ \A n \in NodesUnder({root_ast}, {}) :
              /\ Cardinality(FreesOf(released, "node", n)) = 1
              /\ heap[n].children # <<>> => Cardinality(FreesOf(released, "children", n)) = 1

\* No two items of the set have the same production and dot position.
OneItemPerCore(I) ==
    \A i, j \in 1..Len(I) :
        I[i].production_id = I[j].production_id /\ I[i].dot_position = I[j].dot_position => i = j

\* The set of the pairs of a core and its lookahead set that the item set holds.
CoreLookaheadPairs(I) == {I[i] : i \in 1..Len(I)}

\* C37: every state of the canonical collection, and every set goto_set makes
\* from a state of it, holds at most one item for a production and dot
\* position, with all lookaheads of that core in the one item; so
\* item_sets_equal says of such a set and a state whether their sets of
\* pairs (core, lookahead set) are the same.
C37_OneItemPerCore ==
    /\ \A s \in 1..Len(canonical_collection) : OneItemPerCore(canonical_collection[s])
    /\ Lr1SetsReturns =>
          \A s \in 1..Len(canonical_collection) :
          \A k \in 1..Len(grammar.terminals \o grammar.non_terminals) :
              Let(goto_set(canonical_collection[s],
                           (grammar.terminals \o grammar.non_terminals)[k],
                           grammar, nullable_status, firstSetsForNonTerminals),
                  LAMBDA J :
                      /\ OneItemPerCore(J)
                      /\ \A t \in 1..Len(canonical_collection) :
                            item_sets_equal(canonical_collection[t], J)
                                <=> CoreLookaheadPairs(canonical_collection[t]) = CoreLookaheadPairs(J))

\* create_lr1_sets returns a collection with a state whose item holds two
\* lookaheads, and with a state that is the Goto set of a state for two
\* symbols or of two states.
C37_Witness ==
    /\ Lr1SetsReturns
    /\ \E s \in 1..Len(canonical_collection) : \E i \in 1..Len(canonical_collection[s]) :
          Cardinality(canonical_collection[s][i].lookahead_set) > 1
    /\ \E s, t \in 1..Len(canonical_collection) :
       \E k \in 1..Len(grammar.terminals \o grammar.non_terminals) :
          Let(goto_set(canonical_collection[s],
                       (grammar.terminals \o grammar.non_terminals)[k],
                       grammar, nullable_status, firstSetsForNonTerminals),
              LAMBDA J : /\ Len(J) > 0
                         /\ find_item_set_in_list(canonical_collection, J, freed_set) = t - 1
                         /\ \E r \in 1..Len(canonical_collection) :
                            \E n \in 1..Len(grammar.terminals \o grammar.non_terminals) :
                               /\ <<r, n>> # <<s, k>>
                               /\ item_sets_equal(
                                      J, goto_set(canonical_collection[r],
                                                  (grammar.terminals \o grammar.non_terminals)[n],
                                                  grammar, nullable_status,
                                                  firstSetsForNonTerminals)))

\* parse() has returned to main(): with the node it accepted, or with NULL
\* after an error.
ParseReturned == pc.at = "done" /\ root_ast # SIGSEGV

\* C38: with the tables of the shipped grammar and a token array that ends
\* with TOKEN_EOF, parse() returns after finitely many iterations of its
\* loop, by accept or by an error; the input position never goes back, and
\* from the last token of the array on the current token is TOKEN_EOF.
C38_ParseTerminates ==
    /\ (pc.at = "parse") ~> ParseReturned
    /\ [][pc.at = "parse" =>
             /\ parser'.input_position >= parser.input_position
             /\ parser.input_position >= Len(parser.input) - 1
                   => parser_current_token(parser').type = "TOKEN_EOF"]_vars

\* C39: parse() runs with the shipped grammar, and the semantic action of
\* every production of it reads children[] only at indexes below the length
\* of the production's right-hand side, the size of the array that parse()
\* allocates for the reduce.
C39_ActionsReadWithinRightHandSide ==
    (pc.at = "parse" /\ grammar = ShippedGrammar) =>
        \A production_id \in 0..(Len(grammar.productions) - 1) :
        \A index \in children_read(Production(grammar, production_id).semantic_action) :
            index < right_count(Production(grammar, production_id))

\* interpret_statement runs a statement of this type on a variable that is
\* bound, and reports no error.
SucceedsOnBound(type) ==
    /\ InStatementList
    /\ CurrentStatement.type = type
    /\ lookup_runtime_symbol(interp.global_runtime_sym_table, CurrentStatement.children[1].data) # 0
    /\ stderr' = stderr

\* The tables have the same names in the same order, and the same values
\* but for the entry i, whose value changes from old to the value computed
\* from old and v, the evaluated int value of the statement.
OnlyTargetChanges(table, after, i, new(_, _)) ==
    /\ Len(after) = Len(table)
    /\ \A j \in 1..Len(table) :
          /\ after[j].name = table[j].name
          /\ j # i => after[j].value = table[j].value
    /\ Value(after[i].value)
          = new(Value(table[i].value),
                Value(evaluate_big_int_value(table, CurrentStatement.children[2]).result))

\* C40: a successful assignment, increment or decrement of a bound x leaves
\* the number of bindings, their names, their order and the values of the
\* others as they were, and binds x to v, old + v and old - v; a write
\* statement, with the values it evaluates, changes no binding.
C40_OnlyTargetBindingChanges ==
    [][/\ SucceedsOnBound("AST_ASSIGNMENT") =>
             OnlyTargetChanges(interp.global_runtime_sym_table, interp'.global_runtime_sym_table,
                               lookup_runtime_symbol(interp.global_runtime_sym_table,
                                                     CurrentStatement.children[1].data),
                               LAMBDA old, v : v)
       /\ SucceedsOnBound("AST_INCREMENT") =>
             OnlyTargetChanges(interp.global_runtime_sym_table, interp'.global_runtime_sym_table,
                               lookup_runtime_symbol(interp.global_runtime_sym_table,
                                                     CurrentStatement.children[1].data),
                               LAMBDA old, v : old + v)
       /\ SucceedsOnBound("AST_DECREMENT") =>
             OnlyTargetChanges(interp.global_runtime_sym_table, interp'.global_runtime_sym_table,
                               lookup_runtime_symbol(interp.global_runtime_sym_table,
                                                     CurrentStatement.children[1].data),
                               LAMBDA old, v : old - v)
       /\ (InStatementList /\ CurrentStatement.type = "AST_WRITE_STATEMENT") =>
             interp'.global_runtime_sym_table = interp.global_runtime_sym_table]_vars

=============================================================================
